---- MODULE Spec2Model ----
(***************************************************************************)
(* A model of httpd1, a one-connection-per-process static HTTP/1.0 and     *)
(* HTTP/1.1 server in the publicfile tradition.                            *)
(*                                                                         *)
(* Bytes are integers 0..255 and byte strings are sequences of them.  The  *)
(* connection is the unread input of the client, the sequence of writes    *)
(* the buffered writer accepted, and the number of those a flush covered.  *)
(* The serve loop of server.rs is three actions: ReadRequestOk and         *)
(* ReadRequestErr (request::read, and the error report of a failed read)   *)
(* and ServeRequest (serve_request and the error report of a failed        *)
(* request).  The path construction of serve_request is also explored on   *)
(* its own over enumerated hosts and targets (SpecPath).                   *)
(***************************************************************************)
EXTENDS Integers, Sequences, FiniteSets, TLC

VARIABLES
    input,      \* bytes the client has sent that the server has not consumed
                \* (SpecBytes: the bytes the last function was applied to)
    pc,         \* position of serve(): "read" | "serve" | "done"
    req,        \* the Request produced by the last successful request::read
    out,        \* what con.write accepted since the current request was read
    flushed,    \* how many entries of `out` a successful flush has covered
    io,         \* client-side I/O events of the current loop iteration
    served,     \* what serve_request resolved the current request to
    streamed,   \* what the served file yields from open to end of file
    err,        \* the error that surfaced to serve() in this iteration, if any
    nread,      \* number of requests read on this connection
    exit,       \* process exit status once serve() has returned, else -1
    arg,        \* the client: how its input ends and, where the input is built
                \* from parts, those parts (SpecPath: the host and the target)
    res         \* result of the path construction (SpecPath), of the function
                \* applied last (SpecBytes)

vars == <<input, pc, req, out, flushed, io, served, streamed, err,
          nread, exit, arg, res>>

----------------------------------------------------------------------------
(* Bounds of the exploration.                                              *)

MaxPathLen == 4
MaxHostLen == 1
MaxReqs == 2      \* requests in a multi-request client script
FileBufCap == 2   \* bytes one fill of the file reader yields (1024 in the source)
MaxFailAt == 30   \* latest output operation at which the client may stop accepting

----------------------------------------------------------------------------
(* Bytes.                                                                  *)

NUL == 0
TAB == 9
LF == 10
CR == 13
SP == 32
PERCENT == 37
DOT == 46
SLASH == 47
COLON == 58
UNDERSCORE == 95

NoByte == 0 - 1

Ok(v) == [ok |-> TRUE, val |-> v, err |-> [kind |-> "none", ctx |-> ""]]
Err(e) == [ok |-> FALSE, val |-> <<>>, err |-> e]

E(kind) == [kind |-> kind, ctx |-> ""]
Ectx(kind, ctx) == [kind |-> kind, ctx |-> ctx]

SubSeqFrom(s, i) == SubSeq(s, i, Len(s))

to_ascii_lowercase(c) == IF c >= 65 /\ c <= 90 THEN c + 32 ELSE c

eq_ignore_ascii_case(a, b) ==
    /\ Len(a) = Len(b)
    /\ \A i \in 1..Len(a) : to_ascii_lowercase(a[i]) = to_ascii_lowercase(b[i])

starts_with_ignore_ascii_case(s, prefix) ==
    IF Len(s) < Len(prefix) THEN FALSE
    ELSE eq_ignore_ascii_case(SubSeq(s, 1, Len(prefix)), prefix)

ends_with(s, suffix) ==
    /\ Len(s) >= Len(suffix)
    /\ SubSeq(s, Len(s) - Len(suffix) + 1, Len(s)) = suffix

RECURSIVE position_from(_, _, _)
position_from(slice, item, i) ==
    IF i > Len(slice) \/ slice[i] = item THEN i
    ELSE position_from(slice, item, i + 1)

\* Number of elements before the first `item`, or the length if there is none.
indexof(slice, item) == position_from(slice, item, 1) - 1

----------------------------------------------------------------------------
(* percent.rs                                                              *)

\* Variant that takes the digits and the lower-case letters only.
fromhex_no_upper_case(b) ==
    IF b >= 48 /\ b <= 57 THEN b - 48
    ELSE IF b >= 97 /\ b <= 102 THEN b - 97 + 10
    ELSE NoByte

fromhex(b) ==
    IF b >= 48 /\ b <= 57 THEN b - 48
    ELSE IF b >= 65 /\ b <= 70 THEN b - 65 + 10
    ELSE IF b >= 97 /\ b <= 102 THEN b - 97 + 10
    ELSE NoByte

RECURSIVE unescapeFrom(_, _, _)
\* `i` counts the bytes already consumed, as the source's index does.
unescapeFrom(path, i, acc) ==
    IF i >= Len(path) THEN Ok(acc)
    ELSE LET c == path[i + 1]
             i1 == i + 1
         IN IF c = PERCENT
            THEN IF (Len(path) - i1) < 2 THEN Err(E("BadRequest"))
                 ELSE LET a == fromhex(path[i1 + 1])
                          b == fromhex(path[i1 + 2])
                      IN IF a # NoByte /\ b # NoByte
                         THEN unescapeFrom(path, i1 + 2, Append(acc, (a * 16 + b) % 256))
                         ELSE Err(E("BadRequest"))
            ELSE unescapeFrom(path, i1, Append(acc, c))

unescape(path) == unescapeFrom(path, 0, <<>>)

----------------------------------------------------------------------------
(* path.rs                                                                 *)

\* The closure of sanitize: what one input byte becomes, given the previous
\* INPUT byte (`last`); << >> stands for None (the byte is dropped).
\* sanitize_byte without the rule for a dot that follows a slash.
sanitize_byte_keeps_dot(c, last) ==
    IF c = NUL THEN <<UNDERSCORE>>
    ELSE IF c = SLASH /\ last = SLASH THEN <<>>
    ELSE <<c>>

sanitize_byte(c, last) ==
    IF c = NUL THEN <<UNDERSCORE>>
    ELSE IF c = SLASH /\ last = SLASH THEN <<>>
    ELSE IF c = DOT /\ last = SLASH THEN <<COLON>>
    ELSE <<c>>

RECURSIVE filter_map_in_place_forgets_dropped(_, _, _)
\* Variant in which a dropped byte is not remembered as the previous byte.
filter_map_in_place_forgets_dropped(vec, i, last) ==
    IF i > Len(vec) THEN <<>>
    ELSE sanitize_byte(vec[i], last)
            \o filter_map_in_place_forgets_dropped(vec, i + 1,
                   IF sanitize_byte(vec[i], last) = <<>> THEN NoByte ELSE vec[i])

RECURSIVE filter_map_in_place(_, _, _)
filter_map_in_place(vec, i, last) ==
    IF i > Len(vec) THEN <<>>
    ELSE sanitize_byte(vec[i], last) \o filter_map_in_place(vec, i + 1, vec[i])

sanitize(path) == filter_map_in_place(path, 1, NoByte)

----------------------------------------------------------------------------
(* server.rs: host normalization and the on-disk path                      *)

normalize_host(host) ==
    [i \in 1..indexof(host, COLON) |-> to_ascii_lowercase(host[i])]

INDEX_HTML == <<105, 110, 100, 101, 120, 46, 104, 116, 109, 108>>
DOT_GZ == <<46, 103, 122>>
\* No default host: the host part of the path stays empty.
HOST_EMPTY == <<>>

HOST_ZERO == <<48>>

\* Variant that leaves an empty path empty.
finish_path_keeps_empty(path) ==
    IF ends_with(path, <<SLASH>>) THEN path \o INDEX_HTML
    ELSE path

\* request.rs 175-177: what parse_request_line does to the target's path.
finish_path(path) ==
    IF path = <<>> \/ ends_with(path, <<SLASH>>) THEN path \o INDEX_HTML
    ELSE path

\* server.rs 58-66: the path handed to open_resource for the primary file.
file_path_of(host, path) ==
    LET p == unescape(path)
    IN IF p.ok THEN Ok(sanitize(<<DOT, SLASH>> \o host \o <<SLASH>> \o p.val))
       ELSE Err(p.err)

----------------------------------------------------------------------------
(* con.rs: Connection::readline                                            *)

\* timeout.rs 13-65 and error.rs 98-109: how a read that finds the
\* descriptor not readable within the deadline surfaces.  wait_for_data
\* returns ETIMEDOUT, cvt_err wraps it as io::ErrorKind::Other, and the
\* conversion to HttpError sends every kind but NotFound, PermissionDenied
\* and TimedOut to IoError.
io_error_kind_of_timeout == "Other"

from_io_error(kind, description) ==
    IF kind = "NotFound" THEN Ectx("NotFound", "io not found")
    ELSE IF kind = "PermissionDenied" THEN Ectx("NotFound", "io permission denied")
    ELSE IF kind = "TimedOut" THEN E("RequestTimeout")
    ELSE Ectx("IoError", description)

\* What a read finds once the bytes the client sent are used up: the client
\* has closed its side, or it stays silent past the read deadline.
InputEnds == {"eof", "timeout"}

\* Variant that hands out the bytes before the end of input as a last line.
readline_partial_line(inp, end) ==
    LET n == indexof(inp, LF)
    IN IF n < Len(inp)
       THEN LET raw == SubSeq(inp, 1, n)
                line == IF Len(raw) > 0 /\ raw[Len(raw)] = CR
                        THEN SubSeq(raw, 1, Len(raw) - 1) ELSE raw
            IN [ok |-> TRUE, line |-> line, rest |-> SubSeqFrom(inp, n + 2),
                err |-> E("none")]
       ELSE IF inp # <<>>
       THEN [ok |-> TRUE, line |-> inp, rest |-> <<>>, err |-> E("none")]
       ELSE [ok |-> FALSE, line |-> <<>>, rest |-> <<>>,
             err |-> IF end = "timeout"
                     THEN from_io_error(io_error_kind_of_timeout, "timed out")
                     ELSE E("ConnectionClosed")]

\* Variant that removes the LF alone and leaves a CR on the line.
readline_keeps_cr(inp, end) ==
    LET n == indexof(inp, LF)
    IN IF n < Len(inp)
       THEN [ok |-> TRUE, line |-> SubSeq(inp, 1, n), rest |-> SubSeqFrom(inp, n + 2),
             err |-> E("none")]
       ELSE [ok |-> FALSE, line |-> <<>>, rest |-> <<>>,
             err |-> IF end = "timeout"
                     THEN from_io_error(io_error_kind_of_timeout, "timed out")
                     ELSE E("ConnectionClosed")]

\* One readline on the unread bytes `inp`; `end` says what follows them.
\* Result: ok, the line without its delimiter, the bytes left unread, err.
readline(inp, end) ==
    LET n == indexof(inp, LF)
    IN IF n < Len(inp)
       THEN LET raw == SubSeq(inp, 1, n)
                line == IF Len(raw) > 0 /\ raw[Len(raw)] = CR
                        THEN SubSeq(raw, 1, Len(raw) - 1) ELSE raw
            IN [ok |-> TRUE, line |-> line, rest |-> SubSeqFrom(inp, n + 2),
                err |-> E("none")]
       ELSE [ok |-> FALSE, line |-> <<>>, rest |-> <<>>,
             err |-> IF end = "timeout"
                     THEN from_io_error(io_error_kind_of_timeout, "timed out")
                     ELSE E("ConnectionClosed")]

----------------------------------------------------------------------------
(* request.rs                                                              *)

None == [some |-> FALSE, v |-> <<>>]
Some(x) == [some |-> TRUE, v |-> x]

is_http_ws(c) == c = SP \/ c = TAB

GET == <<71, 69, 84>>   \* "GET"
HEAD == <<72, 69, 65, 68>>   \* "HEAD"
HTTP_1_0 == <<72, 84, 84, 80, 47, 49, 46, 48>>   \* "HTTP/1.0"
HTTP_1_1 == <<72, 84, 84, 80, 47, 49, 46, 49>>   \* "HTTP/1.1"
HTTP_SCHEME == <<104, 116, 116, 112, 58, 47, 47>>   \* "http://"
H_CONTENT_LENGTH == <<99, 111, 110, 116, 101, 110, 116, 45, 108, 101, 110, 103, 116, 104, 58>>   \* "content-length:"
H_TRANSFER_ENCODING == <<116, 114, 97, 110, 115, 102, 101, 114, 45, 101, 110, 99, 111, 100, 105, 110, 103, 58>>   \* "transfer-encoding:"
\* Misspelt variant: Expect headers pass unnoticed.
H_EXCEPT == <<101, 120, 99, 101, 112, 116>>   \* "except"

H_EXPECT == <<101, 120, 112, 101, 99, 116>>   \* "expect"
H_IF_MATCH == <<105, 102, 45, 109, 97, 116, 99, 104>>   \* "if-match"
H_IF_UNMODIFIED_SINCE == <<105, 102, 45, 117, 110, 109, 111, 100, 105, 102, 105, 101, 100, 45, 115, 105, 110, 99, 101>>   \* "if-unmodified-since"
H_HOST == <<104, 111, 115, 116>>   \* "host"
H_IF_MODIFIED_SINCE == <<105, 102, 45, 109, 111, 100, 105, 102, 105, 101, 100, 45, 115, 105, 110, 99, 101>>   \* "if-modified-since"
H_ACCEPT_ENCODING == <<97, 99, 99, 101, 112, 116, 45, 101, 110, 99, 111, 100, 105, 110, 103, 58>>   \* "accept-encoding:"
GZIP == <<103, 122, 105, 112>>   \* "gzip"

\* line.splitn(3, ' '): at most three parts, the third keeps any later space.
splitn3(line) ==
    LET a == indexof(line, SP)
    IN IF a = Len(line) THEN <<line>>
       ELSE LET rest == SubSeqFrom(line, a + 2)
                b == indexof(rest, SP)
            IN IF b = Len(rest) THEN <<SubSeq(line, 1, a), rest>>
               ELSE <<SubSeq(line, 1, a), SubSeq(rest, 1, b), SubSeqFrom(rest, b + 2)>>

\* Variant that takes every method other than GET as HEAD.
parse_request_line_any_method(line) ==
    LET parts == splitn3(line)
    IN IF Len(parts) # 3 THEN Err(E("BadRequest"))
       ELSE LET raw == parts[2]
                url == starts_with_ignore_ascii_case(raw, HTTP_SCHEME)
                tail == SubSeqFrom(raw, 8)
                cut == indexof(tail, SLASH)
                host == IF url /\ cut > 0 THEN Some(SubSeq(tail, 1, cut)) ELSE None
                path == IF url THEN SubSeqFrom(tail, cut + 1) ELSE raw
            IN IF parts[3] # HTTP_1_0 /\ parts[3] # HTTP_1_1
               THEN Err(E("BadProtocol"))
               ELSE Ok([method |-> IF parts[1] = GET THEN "Get" ELSE "Head",
                        protocol |-> IF parts[3] = HTTP_1_0 THEN "Http10" ELSE "Http11",
                        host |-> host,
                        path |-> finish_path(path),
                        if_modified_since |-> None,
                        accept_gzip |-> FALSE])

\* Variant that checks the version before the method.
parse_request_line_version_first(line) ==
    LET parts == splitn3(line)
    IN IF Len(parts) # 3 THEN Err(E("BadRequest"))
       ELSE IF parts[3] # HTTP_1_0 /\ parts[3] # HTTP_1_1 THEN Err(E("BadProtocol"))
       ELSE LET raw == parts[2]
                url == starts_with_ignore_ascii_case(raw, HTTP_SCHEME)
                tail == SubSeqFrom(raw, 8)
                cut == indexof(tail, SLASH)
                host == IF url /\ cut > 0 THEN Some(SubSeq(tail, 1, cut)) ELSE None
                path == IF url THEN SubSeqFrom(tail, cut + 1) ELSE raw
            IN IF parts[1] # GET /\ parts[1] # HEAD
               THEN Err(E("BadMethod"))
               ELSE Ok([method |-> IF parts[1] = GET THEN "Get" ELSE "Head",
                        protocol |-> IF parts[3] = HTTP_1_0 THEN "Http10" ELSE "Http11",
                        host |-> host,
                        path |-> finish_path(path),
                        if_modified_since |-> None,
                        accept_gzip |-> FALSE])

parse_request_line(line) ==
    LET parts == splitn3(line)
    IN IF Len(parts) # 3 THEN Err(E("BadRequest"))
       ELSE IF parts[1] # GET /\ parts[1] # HEAD THEN Err(E("BadMethod"))
       ELSE LET raw == parts[2]
                url == starts_with_ignore_ascii_case(raw, HTTP_SCHEME)
                tail == SubSeqFrom(raw, 8)
                cut == indexof(tail, SLASH)
                host == IF url /\ cut > 0 THEN Some(SubSeq(tail, 1, cut)) ELSE None
                path == IF url THEN SubSeqFrom(tail, cut + 1) ELSE raw
            IN IF parts[3] # HTTP_1_0 /\ parts[3] # HTTP_1_1
               THEN Err(E("BadProtocol"))
               ELSE Ok([method |-> IF parts[1] = GET THEN "Get" ELSE "Head",
                        protocol |-> IF parts[3] = HTTP_1_0 THEN "Http10" ELSE "Http11",
                        host |-> host,
                        path |-> finish_path(path),
                        if_modified_since |-> None,
                        accept_gzip |-> FALSE])

RECURSIVE skip_while_ws(_)
skip_while_ws(s) ==
    IF s # <<>> /\ is_http_ws(s[1]) THEN skip_while_ws(Tail(s)) ELSE s

has_gzip_window(s) ==
    \E i \in 1..(Len(s) - 3) : eq_ignore_ascii_case(SubSeq(s, i, i + 3), GZIP)

\* Variant in which a Host header replaces a host that is already set.
process_header_host_replaced(r, hdr) ==
    IF \/ starts_with_ignore_ascii_case(hdr, H_CONTENT_LENGTH)
       \/ starts_with_ignore_ascii_case(hdr, H_TRANSFER_ENCODING)
    THEN Err(Ectx("NotImplemented", "I can't receive messages"))
    ELSE IF starts_with_ignore_ascii_case(hdr, H_EXPECT)
    THEN Err(E("SpanishInquisition"))
    ELSE IF \/ starts_with_ignore_ascii_case(hdr, H_IF_MATCH)
            \/ starts_with_ignore_ascii_case(hdr, H_IF_UNMODIFIED_SINCE)
    THEN Err(E("PreconditionFailed"))
    ELSE IF starts_with_ignore_ascii_case(hdr, H_HOST)
    THEN IF Len(hdr) < 5 THEN Err(E("Panic"))
         ELSE LET new_host == SelectSeq(SubSeqFrom(hdr, 6), LAMBDA b : ~is_http_ws(b))
              IN IF new_host # <<>> THEN Ok([r EXCEPT !.host = Some(new_host)])
                 ELSE Ok(r)
    ELSE IF starts_with_ignore_ascii_case(hdr, H_IF_MODIFIED_SINCE)
    THEN IF Len(hdr) < 18 THEN Err(E("Panic"))
         ELSE Ok([r EXCEPT !.if_modified_since =
                               Some(skip_while_ws(SubSeqFrom(hdr, 19)))])
    ELSE IF starts_with_ignore_ascii_case(hdr, H_ACCEPT_ENCODING)
    THEN IF has_gzip_window(SubSeqFrom(hdr, 17))
         THEN Ok([r EXCEPT !.accept_gzip = TRUE]) ELSE Ok(r)
    ELSE Ok(r)

\* request.rs 47-98: the effect of one complete header on the request.
\* Slicing past the end of the header (hdr[5..], hdr[18..]) panics.
process_header(r, hdr) ==
    IF \/ starts_with_ignore_ascii_case(hdr, H_CONTENT_LENGTH)
       \/ starts_with_ignore_ascii_case(hdr, H_TRANSFER_ENCODING)
    THEN Err(Ectx("NotImplemented", "I can't receive messages"))
    ELSE IF starts_with_ignore_ascii_case(hdr, H_EXPECT)
    THEN Err(E("SpanishInquisition"))
    ELSE IF \/ starts_with_ignore_ascii_case(hdr, H_IF_MATCH)
            \/ starts_with_ignore_ascii_case(hdr, H_IF_UNMODIFIED_SINCE)
    THEN Err(E("PreconditionFailed"))
    ELSE IF starts_with_ignore_ascii_case(hdr, H_HOST)
    THEN IF r.host.some THEN Ok(r)
         ELSE IF Len(hdr) < 5 THEN Err(E("Panic"))
         ELSE LET new_host == SelectSeq(SubSeqFrom(hdr, 6), LAMBDA b : ~is_http_ws(b))
              IN IF new_host # <<>> THEN Ok([r EXCEPT !.host = Some(new_host)])
                 ELSE Ok(r)
    ELSE IF starts_with_ignore_ascii_case(hdr, H_IF_MODIFIED_SINCE)
    THEN IF Len(hdr) < 18 THEN Err(E("Panic"))
         ELSE Ok([r EXCEPT !.if_modified_since =
                               Some(skip_while_ws(SubSeqFrom(hdr, 19)))])
    ELSE IF starts_with_ignore_ascii_case(hdr, H_ACCEPT_ENCODING)
    THEN IF has_gzip_window(SubSeqFrom(hdr, 17))
         THEN Ok([r EXCEPT !.accept_gzip = TRUE]) ELSE Ok(r)
    ELSE Ok(r)

\* Result of request::read: the Result, the bytes left unread and the number
\* of readline calls made.
ReadResult(result, rest, lines) ==
    [result |-> result, rest |-> rest, lines |-> lines]

RECURSIVE read_headers_line_by_line(_, _, _, _, _)
\* Variant that takes every line for a complete header.
read_headers_line_by_line(inp, end, r, hdr, lines) ==
    LET l == readline(inp, end)
    IN IF ~l.ok THEN ReadResult(Err(l.err), l.rest, lines + 1)
       ELSE LET complete == hdr # <<>>
                p == IF complete THEN process_header(r, hdr) ELSE Ok(r)
            IN IF ~p.ok THEN ReadResult(Err(p.err), l.rest, lines + 1)
               ELSE IF l.line = <<>> THEN ReadResult(Ok(p.val), l.rest, lines + 1)
               ELSE read_headers_line_by_line(l.rest, end, p.val, l.line, lines + 1)

RECURSIVE read_headers(_, _, _, _, _)
read_headers(inp, end, r, hdr, lines) ==
    LET l == readline(inp, end)
    IN IF ~l.ok THEN ReadResult(Err(l.err), l.rest, lines + 1)
       ELSE LET complete == hdr # <<>> /\ (l.line = <<>> \/ ~is_http_ws(l.line[1]))
                p == IF complete THEN process_header(r, hdr) ELSE Ok(r)
                hdr1 == IF complete THEN <<>> ELSE hdr
            IN IF ~p.ok THEN ReadResult(Err(p.err), l.rest, lines + 1)
               ELSE IF l.line = <<>> THEN ReadResult(Ok(p.val), l.rest, lines + 1)
               ELSE read_headers(l.rest, end, p.val, hdr1 \o l.line, lines + 1)

\* Variant that takes the first line for the request line, empty or not.
read_takes_first_line(inp, end, lines) ==
    LET l == readline(inp, end)
    IN IF ~l.ok THEN ReadResult(Err(l.err), l.rest, lines + 1)
       ELSE LET r == parse_request_line(l.line)
            IN IF ~r.ok THEN ReadResult(Err(r.err), l.rest, lines + 1)
               ELSE read_headers(l.rest, end, r.val, <<>>, lines + 1)

RECURSIVE read(_, _, _)
read(inp, end, lines) ==
    LET l == readline(inp, end)
    IN IF ~l.ok THEN ReadResult(Err(l.err), l.rest, lines + 1)
       ELSE IF l.line = <<>> THEN read(l.rest, end, lines + 1)
       ELSE LET r == parse_request_line(l.line)
            IN IF ~r.ok THEN ReadResult(Err(r.err), l.rest, lines + 1)
               ELSE read_headers(l.rest, end, r.val, <<>>, lines + 1)

----------------------------------------------------------------------------
(* The file system the server runs in.  A path maps to an inode, or to the *)
(* OS error that open(2) returns for it; a path that is not mapped does    *)
(* not exist.  Modification times are <<seconds, sub-second part>>.        *)

Inode(kind, mode, mtime, data) ==
    [kind |-> kind, mode |-> mode, mtime |-> mtime, data |-> data, oserr |-> ""]
OsError(kind) ==
    [kind |-> "error", mode |-> 0, mtime |-> <<0, 0>>, data |-> <<>>, oserr |-> kind]

\* "./h/" and "./0/": the directory of virtual host h and of the default host.
InH(name) == <<46, 47, 104, 47>> \o name
In0(name) == <<46, 47, 48, 47>> \o name

A_HTML == <<97, 46, 104, 116, 109, 108>>   \* "a.html"

FS ==
    \* a.html: alternate newer by a sub-second part only
       (InH(A_HTML) :> Inode("file", 420, <<1, 0>>, <<11, 12, 13>>))
    @@ (InH(A_HTML \o DOT_GZ) :> Inode("file", 420, <<1, 1>>, <<21>>))
    \* b: alternate older, within the same second
    @@ (InH(<<98>>) :> Inode("file", 420, <<1, 1>>, <<14>>))
    @@ (InH(<<98, 46, 103, 122>>) :> Inode("file", 420, <<1, 0>>, <<22, 23>>))
    \* c: alternate not world-readable (0640)
    @@ (InH(<<99>>) :> Inode("file", 420, <<2, 0>>, <<15, 16>>))
    @@ (InH(<<99, 46, 103, 122>>) :> Inode("file", 416, <<3, 0>>, <<24>>))
    \* e: empty file (0755), alternate of exactly the same mtime
    @@ (InH(<<101>>) :> Inode("file", 493, <<2, 0>>, <<>>))
    @@ (InH(<<101, 46, 103, 122>>) :> Inode("file", 420, <<2, 0>>, <<25, 26>>))
    \* g: alternate is a directory
    @@ (InH(<<103>>) :> Inode("file", 420, <<2, 1>>, <<17>>))
    @@ (InH(<<103, 46, 103, 122>>) :> Inode("dir", 493, <<3, 0>>, <<>>))
    \* m: no alternate
    @@ (InH(<<109>>) :> Inode("file", 420, <<1, 0>>, <<28>>))
    \* d: directory; p: directory 0700; s: file 0640; x: file 0645; f: fifo
    @@ (InH(<<100>>) :> Inode("dir", 493, <<1, 0>>, <<>>))
    @@ (InH(<<112>>) :> Inode("dir", 448, <<1, 0>>, <<>>))
    @@ (InH(<<115>>) :> Inode("file", 416, <<1, 0>>, <<18>>))
    @@ (InH(<<115, 46, 103, 122>>) :> Inode("file", 420, <<1, 0>>, <<27>>))
    @@ (InH(<<120>>) :> Inode("file", 421, <<1, 0>>, <<19>>))
    @@ (InH(<<102>>) :> Inode("fifo", 420, <<1, 0>>, <<>>))
    \* z: open fails with EACCES; i: open fails with EIO
    @@ (InH(<<122>>) :> OsError("PermissionDenied"))
    @@ (InH(<<105>>) :> OsError("Other"))
    \* virtual host "a": e with a fresh alternate, f without one
    @@ (<<46, 47, 97, 47, 101>> :> Inode("file", 420, <<1, 0>>, <<41>>))
    @@ (<<46, 47, 97, 47, 101, 46, 103, 122>> :> Inode("file", 420, <<1, 0>>, <<42>>))
    @@ (<<46, 47, 97, 47, 102>> :> Inode("file", 420, <<1, 0>>, <<43>>))
    \* the default host "0"
    @@ (In0(A_HTML) :> Inode("file", 420, <<1, 0>>, <<31, 32>>))
    @@ (In0(A_HTML \o DOT_GZ) :> Inode("file", 420, <<2, 0>>, <<33>>))
    @@ (In0(<<100>>) :> Inode("dir", 493, <<1, 0>>, <<>>))

----------------------------------------------------------------------------
(* file.rs                                                                 *)

RECURSIVE BitAnd(_, _)
BitAnd(a, b) ==
    IF a = 0 \/ b = 0 THEN 0
    ELSE (a % 2) * (b % 2) + 2 * BitAnd(a \div 2, b \div 2)

MODE_UGO_R == 292   \* 0o444
MODE_UO_X == 65     \* 0o101
MODE_O_X == 1       \* 0o001

FileOrDir(kind, mtime, length, file) ==
    [kind |-> kind, mtime |-> mtime, length |-> length, file |-> file]
Dir == FileOrDir("Dir", <<0, 0>>, 0, <<>>)

\* Variant that looks at the type of the inode before its mode.
safe_open_type_first(path) ==
    IF path \notin DOMAIN FS THEN Err(from_io_error("NotFound", ""))
    ELSE LET meta == FS[path]
         IN IF meta.kind = "error" THEN Err(from_io_error(meta.oserr, "os error"))
            ELSE IF meta.kind = "dir" THEN Ok(Dir)
            ELSE IF BitAnd(meta.mode, MODE_UGO_R) # MODE_UGO_R
            THEN Err(Ectx("NotFound", "not ugo+r"))
            ELSE IF BitAnd(meta.mode, MODE_UO_X) = MODE_O_X
            THEN Err(Ectx("NotFound", "o+x but u-x"))
            ELSE IF meta.kind = "file"
            THEN Ok(FileOrDir("File", meta.mtime, Len(meta.data), path))
            ELSE Err(Ectx("NotFound", "not a regular file"))

\* Variant for a system that opens "file/" as it opens "file".
safe_open_trailing_slash(path) ==
    LET p == IF ends_with(path, <<SLASH>>) THEN SubSeq(path, 1, Len(path) - 1)
             ELSE path
    IN IF p \notin DOMAIN FS THEN Err(from_io_error("NotFound", ""))
       ELSE LET meta == FS[p]
            IN IF meta.kind = "error" THEN Err(from_io_error(meta.oserr, "os error"))
               ELSE IF BitAnd(meta.mode, MODE_UGO_R) # MODE_UGO_R
               THEN Err(Ectx("NotFound", "not ugo+r"))
               ELSE IF BitAnd(meta.mode, MODE_UO_X) = MODE_O_X
               THEN Err(Ectx("NotFound", "o+x but u-x"))
               ELSE IF meta.kind = "dir" THEN Ok(Dir)
               ELSE IF meta.kind = "file"
               THEN Ok(FileOrDir("File", meta.mtime, Len(meta.data), p))
               ELSE Err(Ectx("NotFound", "not a regular file"))

\* The handle of an opened file is the path it was opened by; `length` is
\* the length at the time of the fstat.
safe_open(path) ==
    IF path \notin DOMAIN FS THEN Err(from_io_error("NotFound", ""))
    ELSE LET meta == FS[path]
         IN IF meta.kind = "error" THEN Err(from_io_error(meta.oserr, "os error"))
            ELSE IF BitAnd(meta.mode, MODE_UGO_R) # MODE_UGO_R
            THEN Err(Ectx("NotFound", "not ugo+r"))
            ELSE IF BitAnd(meta.mode, MODE_UO_X) = MODE_O_X
            THEN Err(Ectx("NotFound", "o+x but u-x"))
            ELSE IF meta.kind = "dir" THEN Ok(Dir)
            ELSE IF meta.kind = "file"
            THEN Ok(FileOrDir("File", meta.mtime, Len(meta.data), path))
            ELSE Err(Ectx("NotFound", "not a regular file"))

\* mtime comparison of server.rs 84 (SystemTime, full resolution); mtime_gt
\* is the comparison with > in place of >=.
mtime_gt(a, b) == a[1] > b[1] \/ (a[1] = b[1] /\ a[2] > b[2])

\* Variant that takes every alternate for fresh.
mtime_any(a, b) == TRUE

mtime_ge(a, b) == a[1] > b[1] \/ (a[1] = b[1] /\ a[2] >= b[2])

----------------------------------------------------------------------------
(* filetype.rs                                                             *)

TEXT_HTML == <<116, 101, 120, 116, 47, 104, 116, 109, 108>>   \* "text/html"
IMAGE_GIF == <<105, 109, 97, 103, 101, 47, 103, 105, 102>>   \* "image/gif"
IMAGE_JPEG == <<105, 109, 97, 103, 101, 47, 106, 112, 101, 103>>   \* "image/jpeg"
IMAGE_PNG == <<105, 109, 97, 103, 101, 47, 112, 110, 103>>   \* "image/png"
APPLICATION_PDF == <<97, 112, 112, 108, 105, 99, 97, 116, 105, 111, 110, 47, 112, 100, 102>>   \* "application/pdf"
TEXT_CSS == <<116, 101, 120, 116, 47, 99, 115, 115>>   \* "text/css"
TEXT_PLAIN == <<116, 101, 120, 116, 47, 112, 108, 97, 105, 110>>   \* "text/plain"

canned_mapping(ext) ==
    IF ext = <<104, 116, 109, 108>> THEN TEXT_HTML
    ELSE IF ext = <<103, 105, 102>> THEN IMAGE_GIF
    ELSE IF ext = <<106, 112, 101, 103>> \/ ext = <<106, 112, 103>> THEN IMAGE_JPEG
    ELSE IF ext = <<112, 110, 103>> THEN IMAGE_PNG
    ELSE IF ext = <<112, 100, 102>> THEN APPLICATION_PDF
    ELSE IF ext = <<99, 115, 115>> THEN TEXT_CSS
    ELSE TEXT_PLAIN

\* rsplitn(2, '.').next(): the bytes after the last '.', or the whole path.
RECURSIVE last_extension(_)
last_extension(p) ==
    IF \A i \in 1..Len(p) : p[i] # DOT THEN p
    ELSE IF p[Len(p)] = DOT THEN <<>>
    ELSE Append(last_extension(SubSeq(p, 1, Len(p) - 1)), p[Len(p)])

\* No CT_<ext> variable is set in the server's environment.
from_path(file_path) == canned_mapping(last_extension(file_path))

----------------------------------------------------------------------------
(* con.rs: the output side of a Connection.                                *)
(*                                                                         *)
(* A connection value is threaded through the response writers:            *)
(*   out, flushed, io  as the variables of the same names;                 *)
(*   n        client-side output operations attempted in this request;     *)
(*   failAt   the operation (counted by n) from which on the client no     *)
(*            longer accepts output (it is gone, or the write deadline     *)
(*            passes), 0 if there is none;                                 *)
(*   r        the error a try! has returned with, kind "none" if none.     *)
(* Once r is set, the writes that follow in program order are skipped,     *)
(* which is what try! does; code that runs regardless resets r itself.     *)

NoError == E("none")

Lit(s) == [k |-> "lit", s |-> s, n |-> 0, d |-> <<>>]     \* write(b"...")
Bytes(d) == [k |-> "bytes", s |-> "", n |-> 0, d |-> d]   \* write(&[u8])
Dec(n) == [k |-> "dec", s |-> "", n |-> n, d |-> <<>>]    \* write_to_string / write_decimal
Hex(n) == [k |-> "hex", s |-> "", n |-> n, d |-> <<>>]    \* write_hex

fails(c, k) == c.failAt # 0 /\ k >= c.failAt

write(c, tok) ==
    IF c.r # NoError THEN c
    ELSE IF fails(c, c.n + 1)
    THEN [c EXCEPT !.n = @ + 1, !.io = Append(@, "write-failed"),
                   !.r = E("ConnectionClosed")]
    ELSE [c EXCEPT !.n = @ + 1, !.io = Append(@, "write"),
                   !.out = Append(@, tok)]

\* flush_output that reports success but leaves the buffer as it is.
flush_output_keeps_buffer(c) ==
    IF c.r # NoError THEN c
    ELSE IF fails(c, c.n + 1)
    THEN [c EXCEPT !.n = @ + 1, !.io = Append(@, "flush-failed"),
                   !.r = E("ConnectionClosed")]
    ELSE [c EXCEPT !.n = @ + 1, !.io = Append(@, "flush")]

flush_output(c) ==
    IF c.r # NoError THEN c
    ELSE IF fails(c, c.n + 1)
    THEN [c EXCEPT !.n = @ + 1, !.io = Append(@, "flush-failed"),
                   !.r = E("ConnectionClosed")]
    ELSE [c EXCEPT !.n = @ + 1, !.io = Append(@, "flush"),
                   !.flushed = Len(c.out)]

\* Consecutive try!(con.write(..)) statements: the writes before the first
\* failing one are accepted, the failing one returns, the rest are not made.
write_all(c, toks) ==
    IF c.r # NoError THEN c
    ELSE LET accepted == IF c.failAt = 0 \/ c.n + Len(toks) < c.failAt THEN Len(toks)
                         ELSE IF c.failAt <= c.n THEN 0
                         ELSE c.failAt - c.n - 1
         IN IF accepted = Len(toks)
            THEN [c EXCEPT !.n = @ + accepted,
                           !.io = @ \o [i \in 1..accepted |-> "write"],
                           !.out = @ \o toks]
            ELSE [c EXCEPT !.n = @ + accepted + 1,
                           !.io = @ \o [i \in 1..accepted |-> "write"] \o <<"write-failed">>,
                           !.out = @ \o SubSeq(toks, 1, accepted),
                           !.r = E("ConnectionClosed")]

----------------------------------------------------------------------------
(* error.rs                                                                *)

NoStatus == <<"", "">>

\* status that tells the client why a file was not found.
status_reveals_context(e) ==
    CASE e.kind = "ConnectionClosed" -> NoStatus
      [] e.kind = "BadRequest" -> <<"400", "bad request">>
      [] e.kind = "NotFound" -> <<"404", e.ctx>>
      [] e.kind = "RequestTimeout" -> <<"408", "type faster">>
      [] e.kind = "PreconditionFailed" -> <<"412", "precondition failed">>
      [] e.kind = "SpanishInquisition" -> <<"417", "unexpected">>
      [] e.kind = "IoError" -> <<"500", e.ctx>>
      [] e.kind = "BadMethod" -> <<"501", "bad method">>
      [] e.kind = "NotImplemented" -> <<"501", e.ctx>>
      [] e.kind = "BadProtocol" -> <<"505", "bad protocol">>

\* status that gives ConnectionClosed a status line like any other error.
status_for_closed(e) ==
    CASE e.kind = "ConnectionClosed" -> <<"400", "connection closed">>
      [] e.kind = "BadRequest" -> <<"400", "bad request">>
      [] e.kind = "NotFound" -> <<"404", "not found">>
      [] e.kind = "RequestTimeout" -> <<"408", "type faster">>
      [] e.kind = "PreconditionFailed" -> <<"412", "precondition failed">>
      [] e.kind = "SpanishInquisition" -> <<"417", "unexpected">>
      [] e.kind = "IoError" -> <<"500", e.ctx>>
      [] e.kind = "BadMethod" -> <<"501", "bad method">>
      [] e.kind = "NotImplemented" -> <<"501", e.ctx>>
      [] e.kind = "BadProtocol" -> <<"505", "bad protocol">>

status(e) ==
    CASE e.kind = "ConnectionClosed" -> NoStatus
      [] e.kind = "BadRequest" -> <<"400", "bad request">>
      [] e.kind = "NotFound" -> <<"404", "not found">>
      [] e.kind = "RequestTimeout" -> <<"408", "type faster">>
      [] e.kind = "PreconditionFailed" -> <<"412", "precondition failed">>
      [] e.kind = "SpanishInquisition" -> <<"417", "unexpected">>
      [] e.kind = "IoError" -> <<"500", e.ctx>>
      [] e.kind = "BadMethod" -> <<"501", "bad method">>
      [] e.kind = "NotImplemented" -> <<"501", e.ctx>>
      [] e.kind = "BadProtocol" -> <<"505", "bad protocol">>

----------------------------------------------------------------------------
(* response.rs                                                             *)

DATE_PREFIX == <<84, 104, 117, 44, 32, 48, 49, 32, 74, 97, 110, 32, 49, 57, 55, 48, 32, 48, 48, 58, 48, 48, 58, 48>>   \* "Thu, 01 Jan 1970 00:00:0"
DATE_SUFFIX == <<32, 71, 77, 84>>   \* " GMT"

\* time::at_utc(t).rfc822(), for the first ten seconds of the epoch: the
\* sub-second part of t does not appear in the text.
rfc822(t) == DATE_PREFIX \o <<48 + t[1]>> \o DATE_SUFFIX

\* The clock reading used for the Date header.
now == <<5, 0>>

start_response(c, prot, code, msg) ==
    write_all(c, <<Lit(IF prot = "Http10" THEN "HTTP/1.0 " ELSE "HTTP/1.1 "),
                   Lit(code), Lit(" "), Lit(msg),
                   Lit("\r\nServer: abstract screaming\r\nDate: "),
                   Bytes(rfc822(now)), Lit("\r\n")>>)

\* The reader over an opened file: `data` is what the file yields from the
\* time streaming starts until end of file, `rderr` the fill_buf call that
\* fails with an I/O error (0: none does).
Reader(data, rderr) == [data |-> data, rderr |-> rderr]

take(s, n) == SubSeq(s, 1, IF Len(s) < n THEN Len(s) ELSE n)
drop(s, n) == SubSeqFrom(s, n + 1)

RECURSIVE unencoded_loop(_, _, _)
unencoded_loop(c, input_, k) ==
    IF c.r # NoError THEN c
    ELSE IF input_.rderr = k THEN [c EXCEPT !.r = from_io_error("Other", "read error")]
    ELSE LET chunk == take(input_.data, FileBufCap)
         IN IF chunk = <<>> THEN c
            ELSE unencoded_loop(write(c, Bytes(chunk)),
                                [input_ EXCEPT !.data = drop(@, FileBufCap)], k + 1)

\* send_unencoded that streams the file whatever send_content says.
send_unencoded_always_streams(c, send_content, length, file) ==
    LET c1 == write_all(c, <<Lit("Content-Length: "), Dec(length), Lit("\r\n\r\n")>>)
        c2 == unencoded_loop(c1, file, 1)
    IN IF c2.r # NoError THEN c2 ELSE [c2 EXCEPT !.r = E("ConnectionClosed")]

send_unencoded(c, send_content, length, file) ==
    LET c1 == write_all(c, <<Lit("Content-Length: "), Dec(length), Lit("\r\n\r\n")>>)
        c2 == IF send_content THEN unencoded_loop(c1, file, 1) ELSE c1
    IN IF c2.r # NoError THEN c2 ELSE [c2 EXCEPT !.r = E("ConnectionClosed")]

RECURSIVE chunked_loop_announces_capacity(_, _, _)
\* Variant that announces the capacity of the reader as the size of every
\* chunk that is not empty.
chunked_loop_announces_capacity(c, input_, k) ==
    IF c.r # NoError THEN c
    ELSE IF input_.rderr = k THEN [c EXCEPT !.r = from_io_error("Other", "read error")]
    ELSE LET chunk == take(input_.data, FileBufCap)
             size == IF chunk = <<>> THEN 0 ELSE FileBufCap
             c1 == write_all(c, <<Hex(size), Lit("\r\n"), Bytes(chunk), Lit("\r\n")>>)
         IN IF Len(chunk) = 0 THEN c1
            ELSE chunked_loop_announces_capacity(
                     c1, [input_ EXCEPT !.data = drop(@, FileBufCap)], k + 1)

RECURSIVE chunked_loop(_, _, _)
chunked_loop(c, input_, k) ==
    IF c.r # NoError THEN c
    ELSE IF input_.rderr = k THEN [c EXCEPT !.r = from_io_error("Other", "read error")]
    ELSE LET chunk == take(input_.data, FileBufCap)
             c1 == write_all(c, <<Hex(Len(chunk)), Lit("\r\n"), Bytes(chunk), Lit("\r\n")>>)
         IN IF Len(chunk) = 0 THEN c1
            ELSE chunked_loop(c1, [input_ EXCEPT !.data = drop(@, FileBufCap)], k + 1)

\* send_chunked that streams the file the way send_unencoded does: bare
\* bytes until end of file.
send_chunked_unterminated(c, send_content, file) ==
    LET c1 == write(c, Lit("Transfer-Encoding: chunked\r\n\r\n"))
    IN IF send_content THEN unencoded_loop(c1, file, 1) ELSE c1

send_chunked(c, send_content, file) ==
    LET c1 == write(c, Lit("Transfer-Encoding: chunked\r\n\r\n"))
    IN IF send_content THEN chunked_loop(c1, file, 1) ELSE c1

\* send that answers 304 to any If-Modified-Since header.
send_any_date(c, method, protocol, encoding, if_modified_since, content_type, resource) ==
    LET mtime == rfc822(resource.mtime)
        unmodified == if_modified_since.some
        c1 == IF unmodified
              THEN start_response(c, protocol, "304", "not modified")
              ELSE start_response(c, protocol, "200", "OK")
        c2 == write_all(c1, <<Lit("Content-Type: "), Bytes(content_type), Lit("\r\n"),
                              Lit("Last-Modified: "), Bytes(mtime), Lit("\r\n")>>)
        c3 == IF encoding = "Gzip" THEN write(c2, Lit("Content-Encoding: gzip\r\n"))
              ELSE c2
        send_content == method = "Get" /\ ~unmodified
        c4 == IF protocol = "Http10"
              THEN send_unencoded(c3, send_content, resource.length, resource.file)
              ELSE send_chunked(c3, send_content, resource.file)
        c5 == flush_output([c4 EXCEPT !.r = NoError])
    IN IF c3.r # NoError THEN c3
       ELSE IF c5.r # NoError THEN c5
       ELSE [c5 EXCEPT !.r = c4.r]

send(c, method, protocol, encoding, if_modified_since, content_type, resource) ==
    LET mtime == rfc822(resource.mtime)
        unmodified == if_modified_since.some /\ if_modified_since.v = mtime
        c1 == IF unmodified
              THEN start_response(c, protocol, "304", "not modified")
              ELSE start_response(c, protocol, "200", "OK")
        c2 == write_all(c1, <<Lit("Content-Type: "), Bytes(content_type), Lit("\r\n"),
                              Lit("Last-Modified: "), Bytes(mtime), Lit("\r\n")>>)
        c3 == IF encoding = "Gzip" THEN write(c2, Lit("Content-Encoding: gzip\r\n"))
              ELSE c2
        send_content == method = "Get" /\ ~unmodified
        c4 == IF protocol = "Http10"
              THEN send_unencoded(c3, send_content, resource.length, resource.file)
              ELSE send_chunked(c3, send_content, resource.file)
        c5 == flush_output([c4 EXCEPT !.r = NoError])
    IN IF c3.r # NoError THEN c3
       ELSE IF c5.r # NoError THEN c5
       ELSE [c5 EXCEPT !.r = c4.r]

\* Variant that adds Connection: close whatever the protocol.
barf_always_close(c, protocol, send_content, error) ==
    LET st == status(error)
        code == st[1]
        message == st[2]
        c1 == start_response(c, IF protocol.some THEN protocol.v ELSE "Http10",
                             code, message)
        c2 == write_all(c1, <<Lit("Content-Length: "), Dec(Len(message) + 28), Lit("\r\n")>>)
        c3 == write(c2, Lit("Connection: close\r\n"))
        c4 == write(c3, Lit("Content-Type: text/html\r\n\r\n"))
        c5 == IF send_content
              THEN write_all(c4, <<Lit("<html><body>"), Lit(message),
                                   Lit("</body></html>\r\n")>>)
              ELSE c4
    IN IF st = NoStatus THEN c ELSE flush_output(c5)

\* Variant that announces one byte less than the HTML wrapper adds.
barf_short_length(c, protocol, send_content, error) ==
    LET st == status(error)
        code == st[1]
        message == st[2]
        c1 == start_response(c, IF protocol.some THEN protocol.v ELSE "Http10",
                             code, message)
        c2 == write_all(c1, <<Lit("Content-Length: "), Dec(Len(message) + 27), Lit("\r\n")>>)
        c3 == IF protocol = Some("Http11") THEN write(c2, Lit("Connection: close\r\n"))
              ELSE c2
        c4 == write(c3, Lit("Content-Type: text/html\r\n\r\n"))
        c5 == IF send_content
              THEN write_all(c4, <<Lit("<html><body>"), Lit(message),
                                   Lit("</body></html>\r\n")>>)
              ELSE c4
    IN IF st = NoStatus THEN c ELSE flush_output(c5)

barf(c, protocol, send_content, error) ==
    LET st == status(error)
        code == st[1]
        message == st[2]
        c1 == start_response(c, IF protocol.some THEN protocol.v ELSE "Http10",
                             code, message)
        c2 == write_all(c1, <<Lit("Content-Length: "), Dec(Len(message) + 28), Lit("\r\n")>>)
        c3 == IF protocol = Some("Http11") THEN write(c2, Lit("Connection: close\r\n"))
              ELSE c2
        c4 == write(c3, Lit("Content-Type: text/html\r\n\r\n"))
        c5 == IF send_content
              THEN write_all(c4, <<Lit("<html><body>"), Lit(message),
                                   Lit("</body></html>\r\n")>>)
              ELSE c4
    IN IF st = NoStatus THEN c ELSE flush_output(c5)

REDIRECT_BODY == "<html><body>moved permanently</body></html>"

\* redirect that returns Ok(()) under HTTP/1.0 as well.
redirect_leaves_open(c, protocol, send_content, location) ==
    LET c1 == start_response(c, protocol, "301", "moved permanently")
        c2 == write_all(c1, <<Lit("Content-Length: "), Dec(Len(REDIRECT_BODY)),
                              Lit("\r\nLocation: "), Bytes(location), Lit("\r\n"),
                              Lit("Content-Type: text/html\r\n\r\n")>>)
        c3 == IF send_content THEN write(c2, Lit(REDIRECT_BODY)) ELSE c2
    IN flush_output(c3)

redirect(c, protocol, send_content, location) ==
    LET c1 == start_response(c, protocol, "301", "moved permanently")
        c2 == write_all(c1, <<Lit("Content-Length: "), Dec(Len(REDIRECT_BODY)),
                              Lit("\r\nLocation: "), Bytes(location), Lit("\r\n"),
                              Lit("Content-Type: text/html\r\n\r\n")>>)
        c3 == IF send_content THEN write(c2, Lit(REDIRECT_BODY)) ELSE c2
        c4 == flush_output(c3)
    IN IF c4.r # NoError THEN c4
       ELSE IF protocol = "Http10" THEN [c4 EXCEPT !.r = E("ConnectionClosed")]
       ELSE c4

----------------------------------------------------------------------------
(* server.rs                                                               *)

open_resource(path) == safe_open(path)

\* What an opened file yields when it is streamed: its length may have
\* changed since the fstat of safe_open.
Changes == {"same", "grown", "shrunk"}

\* How the opened file behaves while it is streamed: its length has changed,
\* or the first or the second fill of the reader fails.
FileBehaviours ==
    { [change |-> ch, rderr |-> 0] : ch \in Changes }
        \cup { [change |-> "same", rderr |-> k] : k \in 1..2 }

file_data(path, change) ==
    LET d == FS[path].data
    IN IF change = "grown" THEN Append(d, 99)
       ELSE IF change = "shrunk" /\ d # <<>> THEN SubSeq(d, 1, Len(d) - 1)
       ELSE d


HTTP_URL == <<104, 116, 116, 112, 58, 47, 47>>   \* "http://"

\* server.rs 42-93: everything serve_request decides before it writes.
\*   err       the Err it returns with before any response is started;
\*   opened    the paths handed to open_resource, in order;
\*   kind      "file" or "dir" (or "none" on Err);
\*   primary   the OpenFile of the primary path, alt the result for <path>.gz;
\*   resource  the OpenFile handed to send, gzip whether it holds the alternate.
Resolved(e, paths, kind, primary, alt, gzip, resource, content_type) ==
    [err |-> e, opened |-> paths, kind |-> kind, primary |-> primary, alt |-> alt,
     gzip |-> gzip, resource |-> resource, content_type |-> content_type]

Unresolved(e, paths) == Resolved(e, paths, "none", Dir, Err(NoError), FALSE, Dir, <<>>)

resolve(rq) ==
    IF ~rq.host.some /\ rq.protocol = "Http11" THEN Unresolved(E("BadRequest"), <<>>)
    ELSE
    LET host == IF rq.host.some THEN normalize_host(rq.host.v) ELSE HOST_ZERO
        fp == file_path_of(host, rq.path)
    IN IF ~fp.ok THEN Unresolved(fp.err, <<>>)
       ELSE
       LET file_path == fp.val
           content_type == from_path(file_path)
           prim == open_resource(file_path)
       IN IF ~prim.ok THEN Unresolved(prim.err, <<file_path>>)
          ELSE IF prim.val.kind = "File"
          THEN LET gz_path == file_path \o DOT_GZ
                   alt == IF rq.accept_gzip THEN open_resource(gz_path)
                          ELSE Err(NoError)
                   use_alt == /\ rq.accept_gzip
                              /\ alt.ok
                              /\ alt.val.kind = "File"
                              /\ mtime_ge(alt.val.mtime, prim.val.mtime)
                   resource == IF use_alt
                               THEN [prim.val EXCEPT !.file = alt.val.file,
                                                     !.length = alt.val.length]
                               ELSE prim.val
               IN Resolved(NoError,
                           IF rq.accept_gzip THEN <<file_path, gz_path>>
                           ELSE <<file_path>>,
                           "file", prim.val, alt, use_alt, resource, content_type)
          ELSE Resolved(NoError, <<file_path>>, "dir", Dir, Err(NoError), FALSE,
                        Dir, content_type)

\* Variant that redirects to the normalized host.
respond_normalized_location(c, rq, rs, change, rderr) ==
    IF rs.err # NoError THEN [c EXCEPT !.r = rs.err]
    ELSE IF rs.kind = "file"
    THEN send(c, rq.method, rq.protocol, IF rs.gzip THEN "Gzip" ELSE "None",
              rq.if_modified_since, rs.content_type,
              [rs.resource EXCEPT
                  !.file = Reader(file_data(rs.resource.file, change), rderr)])
    ELSE IF rq.host.some
    THEN redirect(c, rq.protocol, rq.method = "Get",
                  HTTP_URL \o normalize_host(rq.host.v) \o rq.path \o <<SLASH>>)
    ELSE [c EXCEPT !.r = Ectx("NotFound", "cannot redirect")]

\* server.rs 95-125: the response to a resolved request.  The result is the
\* connection after the call; its r is the Err serve_request returns, if any.
respond(c, rq, rs, change, rderr) ==
    IF rs.err # NoError THEN [c EXCEPT !.r = rs.err]
    ELSE IF rs.kind = "file"
    THEN send(c, rq.method, rq.protocol, IF rs.gzip THEN "Gzip" ELSE "None",
              rq.if_modified_since, rs.content_type,
              [rs.resource EXCEPT
                  !.file = Reader(file_data(rs.resource.file, change), rderr)])
    ELSE IF rq.host.some
    THEN redirect(c, rq.protocol, rq.method = "Get",
                  HTTP_URL \o rq.host.v \o rq.path \o <<SLASH>>)
    ELSE [c EXCEPT !.r = Ectx("NotFound", "cannot redirect")]

serve_request(c, rq, change, rderr) == respond(c, rq, resolve(rq), change, rderr)

----------------------------------------------------------------------------
(* What the client sends.                                                  *)

CRLF == <<CR, LF>>

RequestLine(m, target, v) == m \o <<SP>> \o target \o <<SP>> \o v \o CRLF
Header(name, value) == name \o <<COLON, SP>> \o value \o CRLF

HOST_HEADER == Header(<<72, 111, 115, 116>>, <<72>>)                       \* "Host: H"
GZIP_HEADER == Header(<<65, 99, 99, 101, 112, 116, 45, 69, 110, 99, 111, 100, 105, 110, 103>>, <<103, 122, 105, 112, 44, 32, 100, 101, 102, 108, 97, 116, 101>>)
IMS_HEADER(t) == Header(<<73, 102, 45, 77, 111, 100, 105, 102, 105, 101, 100, 45, 83, 105, 110, 99, 101>>, rfc822(t))

\* Request targets: "/a.html" and "/" followed by one letter of the fixture.
T_A_HTML == <<SLASH>> \o A_HTML
T(letter) == <<SLASH, letter>>

\* Files with a gzip alternate of some kind (b c e g) and without one (m).
GzipTargets == {T_A_HTML, T(98), T(99), T(101), T(103), T(109)}
\* Directories, refused files, open errors, a missing file: d p s x f z i n.
PlainTargets == {T(100), T(112), T(115), T(120), T(102), T(122), T(105), T(110)}

\* Well-formed GET and HEAD requests for the files of the fixture.
FileRequests ==
    { RequestLine(m, t, v) \o HOST_HEADER \o g \o i \o CRLF :
        m \in {GET, HEAD}, t \in GzipTargets, v \in {HTTP_1_0, HTTP_1_1},
        g \in {<<>>, GZIP_HEADER},
        i \in {<<>>, IMS_HEADER(<<1, 0>>), IMS_HEADER(<<2, 0>>)} }
    \cup
    { RequestLine(m, t, v) \o HOST_HEADER \o g \o CRLF :
        m \in {GET, HEAD}, t \in PlainTargets, v \in {HTTP_1_0, HTTP_1_1},
        g \in {<<>>, GZIP_HEADER} }
    \cup
    { RequestLine(m, t, v) \o g \o i \o CRLF :
        m \in {GET, HEAD}, t \in {T_A_HTML, T(100)}, v \in {HTTP_1_0, HTTP_1_1},
        g \in {<<>>, GZIP_HEADER}, i \in {<<>>, IMS_HEADER(<<1, 0>>)} }

\* Requests that exercise the parser and the path resolver.
OtherRequests ==
    { RequestLine(GET, <<104, 116, 116, 112, 58, 47, 47, 72, 58, 56, 48, 47, 97, 46, 104, 116, 109, 108>>, HTTP_1_1) \o CRLF,   \* http://H:80/a.html
      RequestLine(GET, <<104, 116, 116, 112, 58, 47, 47, 104, 47>>, HTTP_1_0) \o CRLF,   \* http://h/
      RequestLine(GET, <<47, 37, 50, 101, 37, 50, 69, 47, 37, 50, 101, 46, 47, 47, 98>>, HTTP_1_1) \o Header(<<72, 111, 115, 116>>, <<46, 46>>) \o CRLF,   \* /%2e%2E/%2e.//b | Host
      RequestLine(GET, <<47, 37, 122, 122>>, HTTP_1_1) \o HOST_HEADER \o CRLF,   \* /%zz
      RequestLine(GET, <<47>>, HTTP_1_0) \o CRLF,
      RequestLine(<<80, 79, 83, 84>>, <<47>>, HTTP_1_1) \o HOST_HEADER   \* POST
          \o Header(<<67, 111, 110, 116, 101, 110, 116, 45, 76, 101, 110, 103, 116, 104>>, <<53>>) \o CRLF \o <<104, 101, 108, 108, 111>>,   \* Content-Length | hello
      RequestLine(GET, <<47, 97, 46, 104, 116, 109, 108>>, HTTP_1_1) \o HOST_HEADER   \* /a.html
          \o Header(<<67, 111, 110, 116, 101, 110, 116, 45, 76, 101, 110, 103, 116, 104>>, <<53>>) \o CRLF,   \* Content-Length
      RequestLine(GET, <<47, 97, 46, 104, 116, 109, 108>>, <<72, 84, 84, 80, 47, 50, 46, 48>>) \o CRLF,   \* /a.html | HTTP/2.0
      <<71, 69, 84, 32, 47, 97, 46, 104, 116, 109, 108, 13, 10>>,   \* GET /a.html\r\n
      <<71, 69, 84, 32, 47, 97, 46, 104, 116>>,   \* GET /a.ht
      <<>>,
      <<13, 10, 10, 71, 69, 84, 32, 47, 97, 46, 104, 116, 109, 108, 32, 72, 84, 84, 80, 47, 49, 46, 49, 10, 104, 111, 115, 116, 58, 9, 104, 10, 65, 99, 99, 101, 112, 116, 45, 69, 110, 99, 111, 100, 105, 110, 103, 58, 10, 32, 103, 122, 105, 112, 10, 10>> }   \* \r\n\nGET /a.html HTTP/1.1\nhost:\th\nAccept-Encoding:\n gzip\n\n

\* Requests of the multi-request scripts.
LoopRequests ==
    { RequestLine(GET, <<47, 97, 46, 104, 116, 109, 108>>, HTTP_1_1) \o HOST_HEADER \o CRLF,   \* /a.html
      RequestLine(HEAD, <<47, 97, 46, 104, 116, 109, 108>>, HTTP_1_1) \o HOST_HEADER \o GZIP_HEADER   \* /a.html
          \o IMS_HEADER(<<1, 0>>) \o CRLF,
      RequestLine(GET, <<47, 100>>, HTTP_1_1) \o HOST_HEADER \o CRLF,
      RequestLine(GET, <<47, 97, 46, 104, 116, 109, 108>>, HTTP_1_0) \o CRLF,   \* /a.html
      RequestLine(GET, <<47, 110>>, HTTP_1_1) \o HOST_HEADER \o CRLF }

RECURSIVE Concatenations(_, _)
\* Every concatenation of exactly n elements of S.
Concatenations(S, n) ==
    IF n = 0 THEN {<<>>}
    ELSE { a \o b : a \in S, b \in Concatenations(S, n - 1) }

Scripts ==
    FileRequests \cup OtherRequests
        \cup UNION { Concatenations(LoopRequests, n) : n \in 2..MaxReqs }

----------------------------------------------------------------------------
(* The serve loop (server.rs 13-36 and main.rs 43).                        *)

NoServed == Unresolved(NoError, <<>>)

NoRequest ==
    [method |-> "Get", protocol |-> "Http10", host |-> None, path |-> <<>>,
     if_modified_since |-> None, accept_gzip |-> FALSE]

Init ==
    /\ input \in Scripts
    /\ pc = "read"
    /\ req = NoRequest
    /\ out = <<>>
    /\ flushed = 0
    /\ io = <<>>
    /\ served = NoServed
    /\ streamed = <<>>
    /\ err = NoError
    /\ nread = 0
    /\ exit = 0 - 1
    /\ arg \in [end : InputEnds]
    /\ res = <<>>

Connection(events, failAt) ==
    [out |-> <<>>, flushed |-> 0, io |-> events, n |-> 0,
     failAt |-> failAt, r |-> NoError]

\* Variant in which the read of a request leaves the request in the input.
ReadRequestOk_keeps_input ==
    /\ pc = "read"
    /\ \E rr \in {read(input, "eof", 0)} :
          /\ rr.result.ok
          /\ input' = input
          /\ req' = rr.result.val
          /\ io' = [i \in 1..rr.lines |-> "readline"]
          /\ nread' = nread
    /\ pc' = "serve"
    /\ out' = <<>>
    /\ flushed' = 0
    /\ served' = NoServed
    /\ streamed' = <<>>
    /\ err' = NoError
    /\ UNCHANGED <<exit, arg, res>>

\* request::read succeeds: the loop goes on to serve_request.
ReadRequestOk ==
    /\ pc = "read"
    /\ \E rr \in {read(input, "eof", 0)} :
          /\ rr.result.ok
          /\ input' = rr.rest
          /\ req' = rr.result.val
          /\ io' = [i \in 1..rr.lines |-> "readline"]
          /\ nread' = nread + 1
    /\ pc' = "serve"
    /\ out' = <<>>
    /\ flushed' = 0
    /\ served' = NoServed
    /\ streamed' = <<>>
    /\ err' = NoError
    /\ UNCHANGED <<exit, arg, res>>

\* Variant in which main exits with 0 whatever serve() returned.
read_failed_exit_zero(c, e) ==
    IF e.kind = "Panic" THEN [c |-> c, exit |-> 101]
    ELSE [c |-> barf(c, None, TRUE, e), exit |-> 0]

\* Variant that reports a failed read as an error of an HTTP/1.1 HEAD
\* request.
read_failed_as_head(c, e) ==
    IF e.kind = "Panic" THEN [c |-> c, exit |-> 101]
    ELSE LET c1 == barf(c, Some("Http11"), FALSE, e)
         IN [c |-> c1, exit |-> IF c1.r = NoError THEN 0 ELSE 40]

\* server.rs 20 and main.rs 43: the iteration in which request::read fails,
\* `return response::barf(c, None, true, e)`.  The result of barf is the
\* result of serve(), and main exits with 40 on Err.  A panic unwinds out
\* of main (exit status 101).  Result: the connection and the exit status.
read_failed(c, e) ==
    IF e.kind = "Panic" THEN [c |-> c, exit |-> 101]
    ELSE LET c1 == barf(c, None, TRUE, e)
         IN [c |-> c1, exit |-> IF c1.r = NoError THEN 0 ELSE 40]

ReadRequestErr ==
    /\ pc = "read"
    /\ \E failAt \in 0..MaxFailAt :
         \E rr \in {read(input, arg.end, 0)} :
            /\ ~rr.result.ok
            /\ \E it \in {read_failed(Connection([i \in 1..rr.lines |-> "readline"],
                                                 failAt), rr.result.err)} :
                 /\ out' = it.c.out
                 /\ flushed' = it.c.flushed
                 /\ io' = it.c.io
                 /\ exit' = it.exit
            /\ input' = rr.rest
            /\ err' = rr.result.err
    /\ pc' = "done"
    /\ served' = NoServed
    /\ streamed' = <<>>
    /\ UNCHANGED <<req, nread, arg, res>>

\* server.rs 27-32: serve_request, and on Err the best-effort barf followed
\* by `return Ok(())`.  Result: the connection at the end of the iteration
\* and the error serve_request returned.
serve_iteration(c, rq, rs, change, rderr) ==
    LET s == respond(c, rq, rs, change, rderr)
    IN [c |-> IF s.r # NoError
              THEN barf([s EXCEPT !.r = NoError], Some(rq.protocol),
                        rq.method = "Get", s.r)
              ELSE s,
        err |-> s.r]

ServeRequest ==
    /\ pc = "serve"
    /\ \E rs \in {resolve(req)}, failAt \in 0..MaxFailAt, file \in FileBehaviours :
         \E it \in {serve_iteration(Connection(io, failAt), req, rs,
                                    file.change, file.rderr)} :
            /\ served' = rs
            /\ streamed' = IF rs.kind = "file"
                           THEN file_data(rs.resource.file, file.change)
                           ELSE <<>>
            /\ out' = it.c.out
            /\ flushed' = it.c.flushed
            /\ io' = it.c.io
            /\ err' = it.err
            /\ pc' = IF it.err # NoError THEN "done" ELSE "read"
            /\ exit' = IF it.err # NoError THEN 0 ELSE exit
    /\ UNCHANGED <<input, req, nread, arg, res>>

Next == ReadRequestOk \/ ReadRequestErr \/ ServeRequest

Spec == Init /\ [][Next]_vars

----------------------------------------------------------------------------
(* The path resolver on its own: serve_request's path construction applied *)
(* to enumerated request targets and hosts.                                *)

PathBytes == {NUL, PERCENT, DOT, SLASH, 48, 50, 101, 102}   \* NUL % . / 0 2 e f
HostBytes == {NUL, DOT, SLASH, COLON, 65}                   \* NUL . / : A

RECURSIVE SeqsUpTo(_, _)
\* All sequences over S of length at most n.
SeqsUpTo(S, n) ==
    IF n = 0 THEN {<<>>}
    ELSE LET shorter == SeqsUpTo(S, n - 1)
         IN shorter \cup { Append(s, b) : s \in {t \in shorter : Len(t) = n - 1}, b \in S }

InitPath ==
    /\ arg \in [host : SeqsUpTo(HostBytes, MaxHostLen) \ {<<>>},
                target : SeqsUpTo(PathBytes, MaxPathLen)]
    /\ res = Err(NoError)
    /\ pc = "path"
    /\ input = <<>>
    /\ req = NoRequest
    /\ out = <<>>
    /\ flushed = 0
    /\ io = <<>>
    /\ served = NoServed
    /\ streamed = <<>>
    /\ err = NoError
    /\ nread = 0
    /\ exit = 0 - 1

\* request.rs 175-177 and server.rs 49-66 on a target path and a client host.
ResolvePath ==
    /\ pc = "path"
    /\ res' = file_path_of(normalize_host(arg.host), finish_path(arg.target))
    /\ pc' = "resolved"
    /\ UNCHANGED <<input, req, out, flushed, io, served, streamed, err,
                   nread, exit, arg>>

\* server.rs 69-81 on the same target and host, for a client that accepts
\* gzip: the paths handed to open_resource.
OpenPath ==
    /\ pc = "resolved"
    /\ served' = resolve([NoRequest EXCEPT !.protocol = "Http11",
                                           !.host = Some(arg.host),
                                           !.path = finish_path(arg.target),
                                           !.accept_gzip = TRUE])
    /\ pc' = "opened"
    /\ UNCHANGED <<input, req, out, flushed, io, streamed, err, nread, exit,
                   arg, res>>

NextPath == ResolvePath \/ OpenPath

SpecPath == InitPath /\ [][NextPath]_vars

----------------------------------------------------------------------------
(* Reading the output of an iteration.                                     *)

StatusLineStarts == {"HTTP/1.0 ", "HTTP/1.1 "}
HeaderEnds ==
    {"\r\n\r\n", "Transfer-Encoding: chunked\r\n\r\n", "Content-Type: text/html\r\n\r\n"}
SuccessCodes == {"200", "304", "301"}

IsLit(tok, strings) == tok.k = "lit" /\ tok.s \in strings

\* Positions in o at which a status line starts.
StatusLines(o) == {i \in 1..Len(o) : IsLit(o[i], StatusLineStarts)}

\* The status code of the response that starts at position i.
CodeAt(o, i) == IF i < Len(o) THEN o[i + 1].s ELSE ""

\* Status lines whose code was written and is not 200, 304 or 301.
ErrorResponses(o) == {i \in StatusLines(o) : i < Len(o) /\ CodeAt(o, i) \notin SuccessCodes}

HasToken(o, tok) == \E i \in 1..Len(o) : o[i] = tok

\* Position of the write that ends the header block of the first response.
HeaderEndAt(o) ==
    IF \E i \in 1..Len(o) : IsLit(o[i], HeaderEnds)
    THEN CHOOSE i \in 1..Len(o) :
             IsLit(o[i], HeaderEnds) /\ \A j \in 1..(i - 1) : ~IsLit(o[j], HeaderEnds)
    ELSE 0

\* What was written after the header block.
Body(o) == IF HeaderEndAt(o) = 0 THEN <<>> ELSE SubSeqFrom(o, HeaderEndAt(o) + 1)

\* Every write and the final flush of the iteration went through, and the
\* file, if it was read, was read without error.
NoFailedOutput ==
    /\ \A i \in 1..Len(io) : io[i] \notin {"write-failed", "flush-failed"}
    /\ err.kind \in {"none", "ConnectionClosed"}

\* serve_request has written a complete 200, 304 or 301 response.
ResponseWritten ==
    /\ pc \in {"read", "done"}
    /\ served.kind \in {"file", "dir"}
    /\ Len(out) >= 2
    /\ CodeAt(out, 1) \in SuccessCodes
    /\ NoFailedOutput
    /\ flushed = Len(out)

----------------------------------------------------------------------------
(* C1.  The path handed to open never has a '.' right after a '/', never   *)
(* has two adjacent '/', and never holds a NUL byte, whatever bytes the    *)
(* request target and the host consist of.                                 *)

SafePath(p) ==
    /\ \A i \in 1..Len(p) : p[i] # NUL
    /\ \A i \in 1..(Len(p) - 1) : p[i] = SLASH => p[i + 1] \notin {DOT, SLASH}

C1_PathIsSafe == (pc = "resolved" /\ res.ok) => SafePath(res.val)

\* "/%2e" under host ".": "././/." becomes "./:/:".
C1_Witness ==
    /\ pc = "resolved"
    /\ arg = [host |-> <<DOT>>, target |-> <<SLASH, PERCENT, 50, 101>>]
    /\ res = Ok(<<DOT, SLASH, COLON, SLASH, COLON>>)

----------------------------------------------------------------------------
(* C2.  After a completely written HTTP/1.1 response (200, 304 or 301) the *)
(* loop goes back to reading; after a completely written HTTP/1.0 response *)
(* it has returned, and the response is the only thing it wrote (no error  *)
(* response follows it).                                                   *)

----------------------------------------------------------------------------
(* C3.  An error that surfaces to serve() ends the loop; at most one error *)
(* response is written; for ConnectionClosed nothing is written: no error  *)
(* response, and nothing at all when the error came from the read.         *)

C3_OneErrorThenReturn ==
    /\ err # NoError => pc = "done"
    /\ Cardinality(ErrorResponses(out)) <= 1
    /\ err.kind = "ConnectionClosed" => ErrorResponses(out) = {}
    /\ (err.kind = "ConnectionClosed" /\ served.kind = "none") => out = <<>>

\* The second request of a persistent connection fails with 404.
C3_Witness ==
    /\ pc = "done"
    /\ nread = 2
    /\ err.kind = "NotFound"
    /\ ErrorResponses(out) = {1}
    /\ flushed = Len(out)

----------------------------------------------------------------------------
(* C4.  When the loop is about to read the next request, the response to   *)
(* the previous one has been written and flushed completely: nothing is    *)
(* left in the output buffer, the last output operation was the flush,     *)
(* exactly one response was written, for the protocol of the request just  *)
(* served, and every readline of the iteration came before its writes.     *)

C4_FlushedBeforeNextRead ==
    (pc = "read" /\ nread >= 1) =>
        /\ flushed = Len(out)
        /\ io # <<>> /\ io[Len(io)] = "flush"
        /\ StatusLines(out) = {1}
        /\ out[1].s = (IF req.protocol = "Http11" THEN "HTTP/1.1 " ELSE "HTTP/1.0 ")
        /\ \A i, j \in 1..Len(io) : (i < j /\ io[j] = "readline") => io[i] = "readline"

\* Two requests were answered in turn and a third read is due.
C4_Witness ==
    /\ pc = "read"
    /\ nread = 2
    /\ CodeAt(out, 1) = "301"
    /\ flushed = Len(out)

----------------------------------------------------------------------------
(* Framing of the responses.                                               *)

CHUNKED == Lit("Transfer-Encoding: chunked\r\n\r\n")
CONTENT_LENGTH == Lit("Content-Length: ")
CONTENT_ENCODING_GZIP == Lit("Content-Encoding: gzip\r\n")
ZeroChunk == <<Hex(0), Lit("\r\n"), Bytes(<<>>), Lit("\r\n")>>

EndsWith(o, suffix) ==
    Len(o) >= Len(suffix) /\ SubSeqFrom(o, Len(o) - Len(suffix) + 1) = suffix

\* The token written right after the first occurrence of `name`.
HeaderValue(o, name) ==
    LET i == CHOOSE i \in 1..Len(o) : o[i] = name /\ \A j \in 1..(i - 1) : o[j] # name
    IN o[i + 1]

\* The file bytes written after the header block.
RECURSIVE BytesOf(_)
BytesOf(toks) ==
    IF toks = <<>> THEN <<>>
    ELSE (IF Head(toks).k = "bytes" THEN Head(toks).d ELSE <<>>) \o BytesOf(Tail(toks))

BodyData(o) == BytesOf(Body(o))

\* Something was written for an HTTP/1.1 request, and every write and the
\* flush went through.
WrittenOnHttp11 ==
    /\ pc \in {"read", "done"}
    /\ Len(out) >= 2
    /\ out[1] = Lit("HTTP/1.1 ")
    /\ \A i \in 1..Len(io) : io[i] \notin {"write-failed", "flush-failed"}
    /\ flushed = Len(out)

(* C5 as stated.  Every response on HTTP/1.1 is chunked, ends with the     *)
(* zero-length chunk and leaves the connection open.                       *)
C5_EveryResponseChunked ==
    WrittenOnHttp11 =>
        /\ HasToken(out, CHUNKED)
        /\ EndsWith(out, ZeroChunk)
        /\ pc = "read"

(* C5.  On HTTP/1.1, a 200 response to a GET whose file is read to the end *)
(* without error is chunked, ends with the zero-length chunk and leaves    *)
(* the connection open.  A HEAD or 304 response carries Transfer-Encoding: *)
(* chunked and not a single chunk, and leaves the connection open.  301    *)
(* and error responses carry Content-Length and no chunked framing; only   *)
(* the 301 leaves the connection open.                                     *)
C5_ChunkedWhereBodyIsStreamed ==
    WrittenOnHttp11 =>
        LET code == CodeAt(out, 1)
        IN /\ (code = "200" /\ req.method = "Get" /\ err = NoError) =>
                  /\ HasToken(out, CHUNKED)
                  /\ EndsWith(out, ZeroChunk)
                  /\ pc = "read"
           /\ (code = "304" \/ (code = "200" /\ req.method = "Head")) =>
                  /\ out[Len(out)] = CHUNKED
                  /\ pc = "read"
           /\ code \notin {"200", "304"} =>
                  /\ ~HasToken(out, CHUNKED)
                  /\ HasToken(out, CONTENT_LENGTH)
                  /\ pc = (IF code = "301" THEN "read" ELSE "done")

\* A file of three bytes went out as chunks of FileBufCap bytes and the
\* zero-length chunk.
C5_Witness ==
    /\ WrittenOnHttp11
    /\ req.method = "Get"
    /\ CodeAt(out, 1) = "200"
    /\ BodyData(out) = <<11, 12, 13>>
    /\ EndsWith(out, ZeroChunk)
    /\ pc = "read"

----------------------------------------------------------------------------
(* C6.  A completely written 200 response to an HTTP/1.0 GET has as many   *)
(* body bytes as its Content-Length says, whatever happens to the file     *)
(* between open and the end of streaming.                                  *)

C6_BodyIsContentLength ==
    (ResponseWritten /\ req.protocol = "Http10" /\ req.method = "Get"
                     /\ CodeAt(out, 1) = "200") =>
        Len(BodyData(out)) = HeaderValue(out, CONTENT_LENGTH).n

----------------------------------------------------------------------------
(* C7.  A HEAD request that is served (200, 304 or 301), on HTTP/1.0 or    *)
(* HTTP/1.1, gets one status line and the header block and nothing after   *)
(* the header block: no file bytes, no chunk.                              *)

C7_HeadHasNoBody ==
    (ResponseWritten /\ req.method = "Head") =>
        /\ StatusLines(out) = {1}
        /\ HeaderEndAt(out) = Len(out)
        /\ Body(out) = <<>>

\* HEAD of a.html on HTTP/1.0: Content-Length 3 and no byte of the file.
C7_Witness ==
    /\ ResponseWritten
    /\ req.method = "Head"
    /\ req.protocol = "Http10"
    /\ CodeAt(out, 1) = "200"
    /\ HeaderValue(out, CONTENT_LENGTH) = Dec(3)
    /\ out[Len(out)] = Lit("\r\n\r\n")

----------------------------------------------------------------------------
(* C8.  The response for a file is 304 exactly when the request has an     *)
(* If-Modified-Since value equal, byte for byte, to the Last-Modified      *)
(* value of the primary file (its mtime in whole seconds, as written in    *)
(* the response); otherwise it is 200.  A 304 has nothing after its header *)
(* block, for GET and HEAD, HTTP/1.0 and HTTP/1.1.                         *)

\* "Thu, 01 Jan 1970 00:00:0s GMT" for s < 10 seconds after the epoch.
DateText(seconds) ==
    <<84, 104, 117, 44, 32, 48, 49, 32, 74, 97, 110, 32, 49, 57, 55, 48, 32,
      48, 48, 58, 48, 48, 58, 48, 48 + seconds, 32, 71, 77, 84>>

C8_NotModifiedIffDatesEqual ==
    (pc \in {"read", "done"} /\ served.kind = "file" /\ Len(out) >= 2) =>
        LET last_modified == DateText(FS[served.opened[1]].mtime[1])
            same == req.if_modified_since = Some(last_modified)
        IN /\ CodeAt(out, 1) = (IF same THEN "304" ELSE "200")
           /\ ResponseWritten => HeaderValue(out, Lit("Last-Modified: ")) = Bytes(last_modified)
           /\ (ResponseWritten /\ same) => Body(out) = <<>>

\* GET on HTTP/1.0 with the date of the primary while the gzip alternate,
\* which is the file that would be streamed, is a second newer.
C8_Witness ==
    /\ ResponseWritten
    /\ req.method = "Get"
    /\ req.protocol = "Http10"
    /\ req.if_modified_since = Some(DateText(1))
    /\ served.opened = <<In0(A_HTML), In0(A_HTML \o DOT_GZ)>>
    /\ served.gzip
    /\ CodeAt(out, 1) = "304"
    /\ Body(out) = <<>>

----------------------------------------------------------------------------
(* C9.  A 304 for a request that accepts gzip and has a valid alternate    *)
(* has no body and no Content-Encoding header.                             *)

C9_NoContentEncodingOn304 ==
    (ResponseWritten /\ served.kind = "file" /\ served.gzip /\ CodeAt(out, 1) = "304") =>
        /\ Body(out) = <<>>
        /\ ~HasToken(out, CONTENT_ENCODING_GZIP)

----------------------------------------------------------------------------
(* C10.  The response carries Content-Encoding: gzip, and body and length  *)
(* of <path>.gz, exactly when the request accepts gzip, <path> and         *)
(* <path>.gz are both regular files that pass the permission checks, and   *)
(* the mtime of <path>.gz is not older than that of <path>.  Last-Modified *)
(* and Content-Type of such a response are those of <path>.                *)

Bit(mode, b) == (mode \div b) % 2 = 1

\* A regular file, readable by user, group and others, and not executable
\* by others while not executable by its owner.
ServableFile(path) ==
    /\ path \in DOMAIN FS
    /\ FS[path].kind = "file"
    /\ Bit(FS[path].mode, 256) /\ Bit(FS[path].mode, 32) /\ Bit(FS[path].mode, 4)
    /\ ~(Bit(FS[path].mode, 1) /\ ~Bit(FS[path].mode, 64))

NotOlder(a, b) == a[1] > b[1] \/ (a[1] = b[1] /\ ~(a[2] < b[2]))

C10_GzipAlternate ==
    (pc \in {"read", "done"} /\ served.opened # <<>>) =>
        LET path == served.opened[1]
            gz == path \o <<46, 103, 122>>
            eligible == /\ req.accept_gzip
                        /\ ServableFile(path)
                        /\ ServableFile(gz)
                        /\ NotOlder(FS[gz].mtime, FS[path].mtime)
        IN /\ HasToken(out, CONTENT_ENCODING_GZIP) => eligible
           /\ (ResponseWritten /\ ServableFile(path) /\ ~eligible) =>
                  (streamed = FS[path].data => BodyData(out) \in {<<>>, FS[path].data})
           /\ (ResponseWritten /\ eligible) =>
                  /\ HasToken(out, CONTENT_ENCODING_GZIP)
                  /\ HeaderValue(out, Lit("Last-Modified: ")) = Bytes(DateText(FS[path].mtime[1]))
                  /\ HeaderValue(out, Lit("Content-Type: ")) = Bytes(from_path(path))
                  /\ req.protocol = "Http10" =>
                         HeaderValue(out, CONTENT_LENGTH) = Dec(Len(FS[gz].data))
                  /\ (req.method = "Get" /\ CodeAt(out, 1) = "200" /\ streamed = FS[gz].data) =>
                         BodyData(out) = FS[gz].data

\* GET /a.html accepting gzip: the one byte of a.html.gz goes out as
\* text/html under the date of a.html.
C10_Witness ==
    /\ ResponseWritten
    /\ req.method = "Get"
    /\ req.protocol = "Http10"
    /\ served.opened = <<InH(A_HTML), InH(A_HTML \o DOT_GZ)>>
    /\ CodeAt(out, 1) = "200"
    /\ HasToken(out, CONTENT_ENCODING_GZIP)
    /\ HeaderValue(out, Lit("Content-Type: ")) = Bytes(TEXT_HTML)
    /\ HeaderValue(out, CONTENT_LENGTH) = Dec(1)
    /\ BodyData(out) = <<21>>

----------------------------------------------------------------------------
(* C11.  serve_request on a request without a host: under HTTP/1.0 the     *)
(* path opened lies in the directory of virtual host "0"; under HTTP/1.1   *)
(* the request fails with BadRequest, the response is a 400 and no file is *)
(* opened.                                                                 *)

\* serve_request has run on req.
Served == pc \in {"read", "done"} /\ served # NoServed

IsPrefix(p, s) == Len(p) <= Len(s) /\ SubSeq(s, 1, Len(p)) = p

C11_HostlessRequest ==
    (Served /\ ~req.host.some) =>
        /\ req.protocol = "Http10" =>
               /\ served.opened # <<>>
               /\ IsPrefix(<<DOT, SLASH, 48, SLASH>>, served.opened[1])
        /\ req.protocol = "Http11" =>
               /\ err.kind = "BadRequest"
               /\ served.opened = <<>>
               /\ Len(out) >= 2 => CodeAt(out, 1) = "400"
               /\ pc = "done"

\* GET /a.html HTTP/1.0 without Host is answered from ./0/a.html.
C11_Witness ==
    /\ Served
    /\ ~req.host.some
    /\ req.protocol = "Http10"
    /\ served.opened = <<In0(A_HTML)>>
    /\ ResponseWritten
    /\ CodeAt(out, 1) = "200"
    /\ BodyData(out) = <<31, 32>>

----------------------------------------------------------------------------
(* The parser on requests built from parts: the serve loop started on the  *)
(* text of one request of which arg keeps the parts.                       *)

MaxHeaders == 2   \* headers of a request built from parts

\* A header: the text is name ":" value; brk > 0 breaks it into two lines
\* after brk bytes, the second line starting with the SP or TAB that
\* follows.
Hdr(name, value, brk) == [name |-> name, value |-> value, brk |-> brk]

HeaderText(h) == h.name \o <<COLON>> \o h.value

HeaderLines(h) ==
    IF h.brk = 0 THEN <<HeaderText(h)>>
    ELSE <<SubSeq(HeaderText(h), 1, h.brk), SubSeqFrom(HeaderText(h), h.brk + 1)>>

RECURSIVE Flatten(_)
Flatten(seqs) == IF seqs = <<>> THEN <<>> ELSE Head(seqs) \o Flatten(Tail(seqs))

\* The request target: the path, or "http://" host path.
TargetOf(a) == IF a.uri.some THEN HTTP_SCHEME \o a.uri.v \o a.path ELSE a.path

\* The first nparts of METHOD, TARGET, VERSION and a fourth part "x",
\* separated by single spaces.
RequestLineOf(a) ==
    LET parts == SubSeq(<<a.method, TargetOf(a), a.version, <<120>>>>, 1, a.nparts)
    IN Flatten([i \in 1..Len(parts) |-> IF i = 1 THEN parts[i] ELSE <<SP>> \o parts[i]])

\* The lines of the request, the empty line that ends the header block
\* included.
MessageLines(a) ==
    <<RequestLineOf(a)>>
        \o Flatten([i \in 1..Len(a.headers) |-> HeaderLines(a.headers[i])])
        \o << <<>> >>

\* What the client sends: every line followed by the line ending the client
\* uses, then the body, less the last a.cut bytes.
MessageText(a) ==
    LET lines == MessageLines(a)
        full == Flatten([i \in 1..Len(lines) |-> lines[i] \o a.eol]) \o a.body
    IN SubSeq(full, 1, Len(full) - a.cut)

Client(end, eol, nparts, method, uri, path, version, headers, body, cut) ==
    [end |-> end, eol |-> eol, nparts |-> nparts, method |-> method, uri |-> uri,
     path |-> path, version |-> version, headers |-> headers, body |-> body,
     cut |-> cut]

H_Host == <<72, 111, 115, 116>>   \* "Host"
ParseHeaders ==
    { Hdr(H_Host, <<32, 72>>, 0),                                   \* Host: H
      Hdr(<<104, 111, 115, 116>>, <<9, 103, 9, 32>>, 0),                              \* host:<TAB>g<TAB><SP>
      Hdr(H_Host, <<32, 9>>, 0),                                   \* Host:<SP><TAB>
      Hdr(<<67, 111, 110, 116, 101, 110, 116, 45, 76, 101, 110, 103, 116, 104>>, <<32, 53>>, 0),                        \* Content-Length: 5
      Hdr(<<84, 82, 65, 78, 83, 70, 69, 82, 45, 69, 78, 67, 79, 68, 73, 78, 71>>, <<32, 99, 104, 117, 110, 107, 101, 100>>, 0),               \* TRANSFER-ENCODING: chunked
      Hdr(<<69, 120, 112, 101, 99, 116>>, <<32, 49, 48, 48, 45, 99, 111, 110, 116, 105, 110, 117, 101>>, 7),                     \* Expect: | 100-continue
      Hdr(<<73, 102, 45, 77, 97, 116, 99, 104>>, <<42>>, 0),                               \* If-Match:*
      Hdr(<<105, 102, 45, 117, 110, 109, 111, 100, 105, 102, 105, 101, 100, 45, 115, 105, 110, 99, 101>>, <<32, 120>>, 0),                   \* if-unmodified-since: x
      Hdr(<<65, 99, 99, 101, 112, 116, 45, 69, 110, 99, 111, 100, 105, 110, 103>>, <<9, 103, 122, 105, 112>>, 16),                  \* Accept-Encoding: | <TAB>gzip
      Hdr(<<88, 45, 65>>, <<32, 98>>, 0) }                                  \* X-A: b

LineEndings == {CRLF, <<LF>>}

\* Request lines of one to four parts with good and bad methods and
\* versions.
LineClients ==
    { Client("eof", eol, n, m, None, T_A_HTML, v, <<Hdr(H_Host, <<32, 72>>, 0)>>, <<>>, 0) :
        eol \in LineEndings, n \in 1..4,
        m \in {GET, HEAD, <<80, 79, 83, 84>>, <<103, 101, 116>>},
        v \in {HTTP_1_0, HTTP_1_1, <<72, 84, 84, 80, 47, 50, 46, 48>>, <<104, 116, 116, 112, 47, 49, 46, 49>>} }

\* GET requests with up to MaxHeaders headers, with and without a host in
\* the request target.
HeaderClients ==
    { Client("eof", eol, 3, GET, uri, T_A_HTML, HTTP_1_1, hs, <<>>, 0) :
        eol \in LineEndings, uri \in {None, Some(<<>>), Some(<<85>>)},
        hs \in SeqsUpTo(ParseHeaders, MaxHeaders) }

\* A request of which the client sends all but the last cut bytes, and
\* then closes or falls silent.
CutClients ==
    { Client(end, eol, 3, GET, None, T_A_HTML, HTTP_1_1, <<Hdr(H_Host, <<32, 72>>, 0)>>, <<>>, cut) :
        end \in InputEnds, eol \in LineEndings, cut \in 1..35 }

\* Requests that announce and carry a body.
POST == <<80, 79, 83, 84>>                                  \* "POST"
HOST_X == Hdr(H_Host, <<SP, 120>>, 0)                       \* Host: x
CONTENT_LENGTH_5 == Hdr(<<67, 111, 110, 116, 101, 110, 116, 45, 76, 101, 110, 103, 116, 104>>, <<SP, 53>>, 0)   \* Content-Length: 5
HELLO == <<104, 101, 108, 108, 111>>                        \* "hello"
BodyClients ==
    { Client("eof", eol, 3, m, None, <<SLASH>>, HTTP_1_1,
             <<HOST_X, CONTENT_LENGTH_5>>, HELLO, 0) :
        eol \in LineEndings, m \in {GET, HEAD, POST} }

\* GET and HEAD requests under both versions for a file that does not exist.
MissingClients ==
    { Client("eof", eol, 3, m, None, <<SLASH, 120>>, v, <<Hdr(H_Host, <<SP, 72>>, 0)>>, <<>>, 0) :
        eol \in LineEndings, m \in {GET, HEAD}, v \in {HTTP_1_0, HTTP_1_1} }

\* Requests for the directory d, plain, percent-encoded and with a doubled
\* slash, with a host in the target, in a header, in both or in neither.
DirClients ==
    { Client("eof", CRLF, 3, m, uri, p, v, hs, <<>>, 0) :
        m \in {GET, HEAD}, uri \in {None, Some(<<72, 58, 56, 48>>)},   \* H:80
        p \in {<<SLASH, 100>>, <<SLASH, PERCENT, 54, 52>>, <<SLASH, SLASH, 100>>},   \* /d /%64 //d
        v \in {HTTP_1_0, HTTP_1_1},
        hs \in {<<>>, <<Hdr(H_Host, <<SP, 72>>, 0)>>} }

InitParse ==
    /\ arg \in LineClients \cup HeaderClients \cup CutClients \cup BodyClients
                \cup MissingClients \cup DirClients
    /\ input = MessageText(arg)
    /\ pc = "read"
    /\ req = NoRequest
    /\ out = <<>>
    /\ flushed = 0
    /\ io = <<>>
    /\ served = NoServed
    /\ streamed = <<>>
    /\ err = NoError
    /\ nread = 0
    /\ exit = 0 - 1
    /\ res = <<>>

SpecParse == InitParse /\ [][Next]_vars

----------------------------------------------------------------------------
(* C12.  The host of a parsed request is the host of the request target    *)
(* when the target carries a non-empty one, whatever Host headers follow;  *)
(* otherwise it is the value, less its SP and TAB bytes, of the first Host *)
(* header of which that value is non-empty; otherwise the request has no   *)
(* host.                                                                   *)

Parsed == nread = 1

IsHostHeader(h) == eq_ignore_ascii_case(h.name, H_Host)

HostValue(h) == SelectSeq(h.value, LAMBDA b : b # SP /\ b # TAB)

FirstHostHeader(hs) ==
    LET given == {i \in 1..Len(hs) : IsHostHeader(hs[i]) /\ HostValue(hs[i]) # <<>>}
    IN IF given = {} THEN None
       ELSE Some(HostValue(hs[CHOOSE i \in given : \A j \in given : i <= j]))

ExpectedHost(a) ==
    IF a.uri.some /\ a.uri.v # <<>> THEN a.uri ELSE FirstHostHeader(a.headers)

C12_HostPrecedence == Parsed => req.host = ExpectedHost(arg)

C12_Witness ==
    /\ Parsed
    /\ arg.uri = Some(<<85>>)
    /\ arg.headers = <<Hdr(<<104, 111, 115, 116>>, <<TAB, 103, TAB, SP>>, 0), Hdr(H_Host, <<SP, 72>>, 0)>>
    /\ req.host = Some(<<85>>)
    /\ Served
    /\ served.opened = <<<<DOT, SLASH, 117, SLASH>> \o A_HTML>>

----------------------------------------------------------------------------
(* C13.  For every request that reaches path construction the host that   *)
(* normalize_host yields, the part of the path between "./" and "/", is    *)
(* non-empty.                                                              *)

C13_HostNeverEmpty == pc = "resolved" => normalize_host(arg.host) # <<>>

----------------------------------------------------------------------------
(* C14.  A request line of fewer than three or of more than three          *)
(* space-separated parts makes the read fail with BadRequest.             *)

ReadFailed == pc = "done" /\ nread = 0

C14_NotThreePartsIsBadRequest ==
    (pc # "read" /\ arg.nparts # 3) => ReadFailed /\ err.kind = "BadRequest"

----------------------------------------------------------------------------
(* C15.  For a request line of three parts: a method other than GET and    *)
(* HEAD makes the read fail with BadMethod, whatever the version; with a   *)
(* good method a version other than HTTP/1.0 and HTTP/1.1 makes it fail    *)
(* with BadProtocol; a request is produced only when both are good, and    *)
(* it carries that method and that version.                                *)

GoodMethod(m) == m = GET \/ m = HEAD
GoodVersion(v) == v = HTTP_1_0 \/ v = HTTP_1_1

C15_MethodThenProtocol ==
    (arg.nparts = 3 /\ arg.cut = 0 /\ (Parsed \/ ReadFailed)) =>
        /\ ~GoodMethod(arg.method) => ReadFailed /\ err.kind = "BadMethod"
        /\ (GoodMethod(arg.method) /\ ~GoodVersion(arg.version)) =>
               ReadFailed /\ err.kind = "BadProtocol"
        /\ Parsed =>
               /\ GoodMethod(arg.method) /\ GoodVersion(arg.version)
               /\ req.method = (IF arg.method = GET THEN "Get" ELSE "Head")
               /\ req.protocol = (IF arg.version = HTTP_1_0 THEN "Http10" ELSE "Http11")

\* POST with HTTP/2.0: the method error is the one reported.
C15_Witness ==
    /\ ReadFailed
    /\ arg.nparts = 3
    /\ arg.method = <<80, 79, 83, 84>>
    /\ arg.version = <<72, 84, 84, 80, 47, 50, 46, 48>>
    /\ err.kind = "BadMethod"
    /\ flushed = Len(out)
    /\ CodeAt(out, 1) = "501"

----------------------------------------------------------------------------
(* The request "POST / HTTP/1.1", "Host: x", "Content-Length: 5", an empty *)
(* line, "hello".                                                          *)

PostExample ==
    /\ arg.method = POST /\ arg.nparts = 3 /\ arg.path = <<SLASH>>
    /\ arg.version = HTTP_1_1 /\ arg.uri = None
    /\ arg.headers = <<HOST_X, CONTENT_LENGTH_5>>
    /\ arg.body = HELLO /\ arg.eol = CRLF /\ arg.cut = 0

\* An error response was written to its end and flushed.
ErrorWritten ==
    /\ Len(out) >= 7
    /\ flushed = Len(out)
    /\ StatusLines(out) = {1}
    /\ out[Len(out) - 2] = Lit("<html><body>")
    /\ out[Len(out)] = Lit("</body></html>\r\n")

ReasonOf(o) == o[4].s
ErrorBodyOf(o) == o[Len(o) - 1].s

\* What the read of the request left unread.
Unread(a, nlines) ==
    LET lines == MessageLines(a)
    IN Flatten([i \in 1..(Len(lines) - nlines) |-> lines[i + nlines] \o a.eol]) \o a.body

(* C16 as stated.  The response to the example is a 501 whose reason and   *)
(* body are "I can't receive messages": it is refused for its body header. *)
C16_PostRefusedForItsBody ==
    (PostExample /\ pc = "done") =>
        /\ err.kind = "NotImplemented"
        /\ ErrorWritten =>
               /\ CodeAt(out, 1) = "501"
               /\ ReasonOf(out) = "I can't receive messages"
               /\ ErrorBodyOf(out) = "I can't receive messages"

(* C16.  The example is refused for its method: the read fails with        *)
(* BadMethod after the request line alone was read, the headers and the    *)
(* body staying unread, and the response, when written, is a 501 whose     *)
(* reason and body are "bad method".  The same request with the method GET *)
(* is refused with 501 "I can't receive messages".                         *)
C16_PostRefusedForItsMethod ==
    (arg \in BodyClients /\ pc # "read") =>
        /\ ReadFailed
        /\ arg.method = POST =>
               /\ err.kind = "BadMethod"
               /\ input = Unread(arg, 1)
               /\ ErrorWritten =>
                      /\ CodeAt(out, 1) = "501"
                      /\ ReasonOf(out) = "bad method"
                      /\ ErrorBodyOf(out) = "bad method"
        /\ arg.method = GET =>
               /\ err.kind = "NotImplemented"
               /\ input = Unread(arg, 4)
               /\ ErrorWritten =>
                      /\ CodeAt(out, 1) = "501"
                      /\ ReasonOf(out) = "I can't receive messages"
                      /\ ErrorBodyOf(out) = "I can't receive messages"

C16_Witness ==
    /\ PostExample
    /\ ReadFailed
    /\ ErrorWritten
    /\ io[1] = "readline" /\ io[2] # "readline"
    /\ ErrorBodyOf(out) = "bad method"
    /\ input = Flatten(<<HeaderText(HOST_X), CRLF, HeaderText(CONTENT_LENGTH_5), CRLF, CRLF, HELLO>>)

----------------------------------------------------------------------------
(* C17.  Reading the headers of a GET or HEAD request stops at the first   *)
(* header, in arrival order, whose text begins (in any letter case) with   *)
(* content-length: or transfer-encoding: (NotImplemented, 501), expect     *)
(* (SpanishInquisition, 417), if-match or if-unmodified-since              *)
(* (PreconditionFailed, 412): the read fails with that error as soon as    *)
(* the line after that header is read, no file is opened, the only         *)
(* response is that error's, and the loop returns.  Without such a header  *)
(* the request parses.                                                     *)

Offence(h) ==
    LET text == HeaderText(h)
    IN IF \/ starts_with_ignore_ascii_case(text, H_CONTENT_LENGTH)
          \/ starts_with_ignore_ascii_case(text, H_TRANSFER_ENCODING)
       THEN <<"NotImplemented", "501">>
       ELSE IF starts_with_ignore_ascii_case(text, <<101, 120, 112, 101, 99, 116>>)
       THEN <<"SpanishInquisition", "417">>
       ELSE IF \/ starts_with_ignore_ascii_case(text, H_IF_MATCH)
               \/ starts_with_ignore_ascii_case(text, H_IF_UNMODIFIED_SINCE)
       THEN <<"PreconditionFailed", "412">>
       ELSE <<>>

Offenders(hs) == {i \in 1..Len(hs) : Offence(hs[i]) # <<>>}

FirstOffender(hs) == CHOOSE i \in Offenders(hs) : \A j \in Offenders(hs) : i <= j

\* Lines read when the header hs[i] is complete: the request line, the
\* lines of the headers up to hs[i], and the line after them.
LinesThrough(hs, i) == Len(Flatten([j \in 1..i |-> HeaderLines(hs[j])])) + 2

WellFormedLine(a) ==
    a.nparts = 3 /\ a.cut = 0 /\ GoodMethod(a.method) /\ GoodVersion(a.version)

C17_FirstOffendingHeader ==
    (WellFormedLine(arg) /\ pc # "read") =>
        IF Offenders(arg.headers) = {} THEN Parsed
        ELSE \E i \in {FirstOffender(arg.headers)} :
               /\ ReadFailed
               /\ err.kind = Offence(arg.headers[i])[1]
               /\ input = Unread(arg, LinesThrough(arg.headers, i))
               /\ served = NoServed
               /\ StatusLines(out) \subseteq {1}
               /\ ErrorWritten => CodeAt(out, 1) = Offence(arg.headers[i])[2]

\* An Expect header broken over two lines, before a Content-Length header.
C17_Witness ==
    /\ ReadFailed
    /\ arg.eol = CRLF
    /\ arg.headers = <<Hdr(<<69, 120, 112, 101, 99, 116>>, <<SP, 49, 48, 48, 45, 99, 111, 110, 116, 105, 110, 117, 101>>, 7),
                       Hdr(<<67, 111, 110, 116, 101, 110, 116, 45, 76, 101, 110, 103, 116, 104>>, <<SP, 53>>, 0)>>
    /\ err.kind = "SpanishInquisition"
    /\ ErrorWritten
    /\ CodeAt(out, 1) = "417"
    /\ input = CRLF

----------------------------------------------------------------------------
(* C18.  A request whose headers are broken over continuation lines is     *)
(* read as the request in which every header is one line, the              *)
(* concatenation of its lines: the same request or the same error results. *)
(* A request that parses was read up to and including its first empty      *)
(* line.                                                                   *)

Unbroken(a) ==
    [a EXCEPT !.headers = [i \in 1..Len(a.headers) |-> [a.headers[i] EXCEPT !.brk = 0]]]

\* The outcome of the first read: the request or the error.
Outcome == IF Parsed THEN Ok(req) ELSE Err(err)

C18_ContinuationLines ==
    (WellFormedLine(arg) /\ pc # "read") =>
        /\ Outcome = read(MessageText(Unbroken(arg)), arg.end, 0).result
        /\ Parsed => input = arg.body

\* "Accept-Encoding:" and "<TAB>gzip" on two lines, then "Host: H".
C18_Witness ==
    /\ Parsed
    /\ arg.headers = <<Hdr(<<65, 99, 99, 101, 112, 116, 45, 69, 110, 99, 111, 100, 105, 110, 103>>, <<TAB, 103, 122, 105, 112>>, 16),
                       Hdr(H_Host, <<SP, 72>>, 0)>>
    /\ Len(MessageLines(arg)) = 5
    /\ req.accept_gzip
    /\ req.host = Some(<<72>>)
    /\ input = <<>>

----------------------------------------------------------------------------
(* C19.  A request sent whole with CRLF line endings is read as the same   *)
(* request sent with bare LF line endings: the same request or the same    *)
(* error results, an error after the same number of lines.  For each line  *)
(* X of the request, none of which ends in CR, readline returns X from     *)
(* X CR LF and from X LF.                                                  *)

WithLF(a) == [a EXCEPT !.eol = <<LF>>]

LinesReadAlike(a) ==
    \A i \in 1..Len(MessageLines(a)) :
        \E X \in {MessageLines(a)[i]} :
            /\ readline(X \o CRLF \o a.body, "eof").line = X
            /\ readline(X \o <<LF>> \o a.body, "eof") = readline(X \o CRLF \o a.body, "eof")

----------------------------------------------------------------------------
(* C20.  When the client closes its side before the request is complete,   *)
(* so that a readline meets the end of the input before a line delimiter,  *)
(* with or without bytes of a partial line read, the read fails with       *)
(* ConnectionClosed, nothing is written to the client, and the loop has    *)
(* returned; the bytes of the partial line are used up.                    *)

----------------------------------------------------------------------------
(* Error responses.                                                        *)

\* An error response was written to its end and flushed, with or without
\* its body.
ErrorSent ==
    /\ pc = "done"
    /\ ErrorResponses(out) = {1}
    /\ HeaderEndAt(out) # 0
    /\ io # <<>> /\ io[Len(io)] = "flush"
    /\ flushed = Len(out)

\* The error came from reading the request, not from serving it.
FromRead == served = NoServed

RECURSIVE LitLength(_)
\* Bytes written by a sequence of writes of literals.
LitLength(toks) ==
    IF toks = <<>> THEN 0 ELSE Len(Head(toks).s) + LitLength(Tail(toks))

ContentLengthOf(o) == HeaderValue(o, CONTENT_LENGTH).n

(* C21 as stated.  The body of every error response has len(reason) + 28   *)
(* bytes, the value of its Content-Length.                                 *)
C21_ErrorBodyIsContentLength ==
    ErrorSent =>
        /\ LitLength(Body(out)) = Len(ReasonOf(out)) + 28
        /\ LitLength(Body(out)) = ContentLengthOf(out)

(* C21.  Every error response announces Content-Length len(reason) + 28.   *)
(* Its body has exactly that many bytes when the body is sent: for an      *)
(* error met while reading the request and for an error of a GET request.  *)
(* The error response to a HEAD request has the same Content-Length and no *)
(* body.                                                                   *)
C21_ErrorContentLength ==
    ErrorSent =>
        /\ ContentLengthOf(out) = Len(ReasonOf(out)) + 28
        /\ LitLength(Body(out)) =
               (IF FromRead \/ req.method = "Get" THEN ContentLengthOf(out) ELSE 0)

\* A GET request for a file that does not exist.
C21_Witness ==
    /\ ErrorSent
    /\ ~FromRead
    /\ req.method = "Get"
    /\ CodeAt(out, 1) = "404"
    /\ ContentLengthOf(out) = 37
    /\ Body(out) = <<Lit("<html><body>"), Lit("not found"), Lit("</body></html>\r\n")>>

----------------------------------------------------------------------------
CONNECTION_CLOSE == Lit("Connection: close\r\n")

(* C22 as stated.  Every error response to a request made with HTTP/1.1    *)
(* carries Connection: close, and none to a request made with HTTP/1.0     *)
(* does.                                                                   *)
C22_CloseHeaderByRequestVersion ==
    (ErrorSent /\ arg.nparts = 3 /\ arg.cut = 0 /\ GoodVersion(arg.version)) =>
        (HasToken(out, CONNECTION_CLOSE) <=> arg.version = HTTP_1_1)

(* C22.  An error response carries Connection: close exactly when it       *)
(* answers an error of serve_request for a request made with HTTP/1.1,     *)
(* and then its status line is HTTP/1.1.  The response to an error met     *)
(* while reading the request has an HTTP/1.0 status line and no            *)
(* Connection: close, whatever version the request line named, and so has  *)
(* every error response to a request made with HTTP/1.0.                   *)
C22_CloseHeaderOnHttp11Errors ==
    ErrorSent =>
        /\ HasToken(out, CONNECTION_CLOSE) <=> (~FromRead /\ req.protocol = "Http11")
        /\ out[1] = (IF ~FromRead /\ req.protocol = "Http11"
                     THEN Lit("HTTP/1.1 ") ELSE Lit("HTTP/1.0 "))
        /\ ~FromRead =>
               req.protocol = (IF arg.version = HTTP_1_1 THEN "Http11" ELSE "Http10")

\* A HEAD request under HTTP/1.1 for a file that does not exist.
C22_Witness ==
    /\ ErrorSent
    /\ arg \in MissingClients
    /\ arg.version = HTTP_1_1
    /\ arg.method = HEAD
    /\ CodeAt(out, 1) = "404"
    /\ out[1] = Lit("HTTP/1.1 ")
    /\ out[Len(out) - 1] = CONNECTION_CLOSE

----------------------------------------------------------------------------
(* C23.  What the client receives for a NotFound error is fixed by the     *)
(* protocol and the method of the request (and by how much of it the       *)
(* client accepts): the 404 "not found" response, the same for a missing   *)
(* file, a file or directory refused for its mode, a file that is not      *)
(* regular, an open refused by the system, and a directory asked for       *)
(* without a host.  The context of the error is no part of it.             *)

NotFoundResponse(protocol, get) ==
    <<Lit(IF protocol = "Http11" THEN "HTTP/1.1 " ELSE "HTTP/1.0 "),
      Lit("404"), Lit(" "), Lit("not found"),
      Lit("\r\nServer: abstract screaming\r\nDate: "), Bytes(DateText(now[1])), Lit("\r\n"),
      Lit("Content-Length: "), Dec(37), Lit("\r\n")>>
    \o (IF protocol = "Http11" THEN <<CONNECTION_CLOSE>> ELSE <<>>)
    \o <<Lit("Content-Type: text/html\r\n\r\n")>>
    \o (IF get THEN <<Lit("<html><body>"), Lit("not found"), Lit("</body></html>\r\n")>>
        ELSE <<>>)

\* Every write and the flush of the iteration went through.
AllOutputAccepted == \A i \in 1..Len(io) : io[i] \notin {"write-failed", "flush-failed"}

NotFoundContexts ==
    {"io not found", "io permission denied", "not ugo+r", "o+x but u-x",
     "not a regular file", "cannot redirect"}

C23_NotFoundIsOpaque ==
    (pc = "done" /\ err.kind = "NotFound") =>
        /\ err.ctx \in NotFoundContexts
        /\ IsPrefix(out, NotFoundResponse(req.protocol, req.method = "Get"))
        /\ AllOutputAccepted =>
               /\ out = NotFoundResponse(req.protocol, req.method = "Get")
               /\ flushed = Len(out)

\* An open refused by the system with EACCES.
C23_Witness ==
    /\ pc = "done"
    /\ err = Ectx("NotFound", "io permission denied")
    /\ served.opened = <<InH(<<122>>)>>
    /\ req.protocol = "Http11" /\ req.method = "Get"
    /\ AllOutputAccepted
    /\ out = NotFoundResponse("Http11", TRUE)

----------------------------------------------------------------------------
(* C24.  When the client falls silent before the request is complete and   *)
(* the read deadline passes, the read fails with RequestTimeout, the       *)
(* response is a 408 "type faster", and the loop has returned without      *)
(* another read.                                                           *)

C24_ReadTimeoutIs408 ==
    (arg.cut > 0 /\ arg.end = "timeout" /\ pc # "read") =>
        /\ ReadFailed
        /\ err.kind = "RequestTimeout"
        /\ ErrorSent => CodeAt(out, 1) = "408" /\ ReasonOf(out) = "type faster"
        /\ pc = "done"

----------------------------------------------------------------------------
(* C25.  When the primary path opens as a directory and the request has a  *)
(* host, the response is a 301 "moved permanently" whose Location is       *)
(* "http://", the host as the client sent it (letter case and port kept),  *)
(* the path as the client sent it (not decoded, not sanitized) and "/",    *)
(* and whose Content-Length is the length of the redirect body, which is   *)
(* sent for GET only; afterwards an HTTP/1.0 connection is closed and an   *)
(* HTTP/1.1 connection reads on.  Without a host the request fails with    *)
(* NotFound (404).  A directory never yields a 200.                        *)

RedirectResponse(protocol, get, location) ==
    <<Lit(IF protocol = "Http11" THEN "HTTP/1.1 " ELSE "HTTP/1.0 "),
      Lit("301"), Lit(" "), Lit("moved permanently"),
      Lit("\r\nServer: abstract screaming\r\nDate: "), Bytes(DateText(now[1])), Lit("\r\n"),
      Lit("Content-Length: "), Dec(Len("<html><body>moved permanently</body></html>")),
      Lit("\r\nLocation: "), Bytes(location), Lit("\r\n"),
      Lit("Content-Type: text/html\r\n\r\n")>>
    \o (IF get THEN <<Lit("<html><body>moved permanently</body></html>")>> ELSE <<>>)

LocationOf(a) == HTTP_URL \o ExpectedHost(a).v \o a.path \o <<SLASH>>

----------------------------------------------------------------------------
(* C26.  File bytes are written to the client only from a file, the        *)
(* primary or its gzip alternate, that is regular, readable by user, group *)
(* and others, and not executable by others alone; a 200 or 304 answers    *)
(* only a primary of that kind.  A primary that opens but fails a check    *)
(* makes the request fail with NotFound, the mode checks first: a          *)
(* directory or a fifo with a refused mode fails for its mode, and a       *)
(* directory with a refused mode is not redirected to.                     *)

ModeReadable(mode) == Bit(mode, 256) /\ Bit(mode, 32) /\ Bit(mode, 4)
ModeOddExec(mode) == Bit(mode, 1) /\ ~Bit(mode, 64)

\* The context of the check that an inode which opens fails first, "" if it
\* passes them all.
FailedCheck(inode) ==
    IF ~ModeReadable(inode.mode) THEN "not ugo+r"
    ELSE IF ModeOddExec(inode.mode) THEN "o+x but u-x"
    ELSE IF inode.kind \notin {"dir", "file"} THEN "not a regular file"
    ELSE ""

Opens(path) == path \in DOMAIN FS /\ FS[path].kind # "error"

\* The file bytes of the first response: those written after its header
\* block and before the status line of an error response that follows it.
FileBytes(o) ==
    LET b == Body(o)
        later == {i \in 1..Len(b) : IsLit(b[i], StatusLineStarts)}
    IN BytesOf(IF later = {} THEN b
               ELSE SubSeq(b, 1, (CHOOSE i \in later : \A j \in later : i <= j) - 1))

C26_OnlyCheckedFilesServed ==
    (Served /\ served.opened # <<>>) =>
        \E p \in {served.opened[1]} :
            /\ FileBytes(out) # <<>> =>
                   /\ served.kind = "file"
                   /\ served.resource.file \in {p, p \o DOT_GZ}
                   /\ ServableFile(served.resource.file)
                   /\ IsPrefix(FileBytes(out), streamed)
            /\ (Len(out) >= 2 /\ CodeAt(out, 1) \in {"200", "304"}) => ServableFile(p)
            /\ (Opens(p) /\ FailedCheck(FS[p]) # "") =>
                   /\ err = Ectx("NotFound", FailedCheck(FS[p]))
                   /\ served.kind = "none"
                   /\ Len(served.opened) = 1
                   /\ Len(out) >= 2 => CodeAt(out, 1) = "404"

\* The directory p, mode 0700, asked for with a host.
C26_Witness ==
    /\ Served
    /\ served.opened = <<InH(<<112>>)>>
    /\ FS[InH(<<112>>)].kind = "dir"
    /\ req.host.some
    /\ err = Ectx("NotFound", "not ugo+r")
    /\ ErrorSent
    /\ CodeAt(out, 1) = "404"

----------------------------------------------------------------------------
(* The functions on byte strings, each applied to every string of up to    *)
(* MaxPathLen bytes over a small alphabet and to every three-byte escape   *)
(* whose digits lie at the edges of the hexadecimal ranges.                *)

PureBytes == {NUL, PERCENT, DOT, SLASH, 50, 53, 101, 103}   \* NUL % . / 2 5 e g
HexEdges == {47, 48, 57, 58, 64, 65, 70, 71, 96, 97, 102, 103}   \* / 0 9 : @ A F G ` a f g
EscapeProbes == { <<PERCENT, h, l>> : h, l \in HexEdges }

InitBytes ==
    /\ arg \in [bytes : SeqsUpTo(PureBytes, MaxPathLen) \cup EscapeProbes]
    /\ res = Err(NoError)
    /\ pc = "bytes"
    /\ input = <<>>
    /\ req = NoRequest
    /\ out = <<>>
    /\ flushed = 0
    /\ io = <<>>
    /\ served = NoServed
    /\ streamed = <<>>
    /\ err = NoError
    /\ nread = 0
    /\ exit = 0 - 1

Apply(at, next, argument, result) ==
    /\ pc = at
    /\ input' = argument
    /\ res' = result
    /\ pc' = next
    /\ UNCHANGED <<req, out, flushed, io, served, streamed, err, nread, exit, arg>>

\* percent.rs 6-41.
Unescape == Apply("bytes", "unescaped", arg.bytes, unescape(arg.bytes))

\* path.rs 6-18, and once more on its own result.
Sanitize == Apply("bytes", "sanitized", arg.bytes, Ok(sanitize(arg.bytes)))
SanitizeAgain == Apply("sanitized", "resanitized", res.val, Ok(sanitize(res.val)))

\* request.rs 134-187 on "GET <target> HTTP/1.1", the target being the
\* bytes, or "http://" followed by the bytes.
ParseTarget ==
    \E target \in {arg.bytes, HTTP_SCHEME \o arg.bytes} :
        Apply("bytes", "parsed", target,
              parse_request_line(GET \o <<SP>> \o target \o <<SP>> \o HTTP_1_1))

NextBytes == Unescape \/ Sanitize \/ SanitizeAgain \/ ParseTarget

SpecBytes == InitBytes /\ [][NextBytes]_vars

----------------------------------------------------------------------------
(* C27.  After a successful parse of the request line the request path is  *)
(* not empty and does not end in "/": it is the path part of the target    *)
(* followed by "index.html" when that part is empty or ends in "/", and    *)
(* the path part itself otherwise.  The path part of a target that starts  *)
(* with "http://" is what follows the host, from its first "/" on, and of  *)
(* any other target it is the whole target.                                *)

PathPart(target) ==
    IF IsPrefix(HTTP_SCHEME, target)
    THEN LET tail == SubSeqFrom(target, Len(HTTP_SCHEME) + 1)
             slashes == {i \in 1..Len(tail) : tail[i] = SLASH}
         IN IF slashes = {} THEN <<>>
            ELSE SubSeqFrom(tail, CHOOSE i \in slashes : \A j \in slashes : i <= j)
    ELSE target

C27_PathNeverEmpty ==
    (pc = "parsed" /\ res.ok) =>
        \E part \in {PathPart(input)} :
            /\ res.val.path # <<>>
            /\ res.val.path[Len(res.val.path)] # SLASH
            /\ res.val.path =
                   (IF part = <<>> \/ part[Len(part)] = SLASH
                    THEN part \o <<105, 110, 100, 101, 120, 46, 104, 116, 109, 108>>
                    ELSE part)

\* "GET http://e HTTP/1.1": host e, no path part, path index.html.
C27_Witness ==
    /\ pc = "parsed"
    /\ input = HTTP_SCHEME \o <<101>>
    /\ res.ok
    /\ res.val.host = Some(<<101>>)
    /\ res.val.path = INDEX_HTML

----------------------------------------------------------------------------
(* C28.  unescape fails, with BadRequest, exactly when some "%" of its     *)
(* input is not followed by two hexadecimal digits (0-9, A-F, a-f), a "%"  *)
(* among the last two bytes included.  Otherwise its output is the input   *)
(* read once from left to right, with every "%HL" replaced by the byte     *)
(* 16*H + L and every other byte kept; input without "%" is returned as    *)
(* it is.                                                                  *)

IsHexDigit(c) == c \in 48..57 \/ c \in 65..70 \/ c \in 97..102

HexValue(c) == IF c \in 48..57 THEN c - 48 ELSE IF c \in 65..70 THEN c - 55 ELSE c - 87

BadEscapeAt(b, i) ==
    b[i] = PERCENT /\ ~(i + 2 <= Len(b) /\ IsHexDigit(b[i + 1]) /\ IsHexDigit(b[i + 2]))

\* The decoding of a string without bad escapes: a byte that follows a "%"
\* at distance one or two is a digit of that escape.
Decoded(b) ==
    Flatten([i \in 1..Len(b) |->
                IF b[i] = PERCENT THEN <<16 * HexValue(b[i + 1]) + HexValue(b[i + 2])>>
                ELSE IF (i > 1 /\ b[i - 1] = PERCENT) \/ (i > 2 /\ b[i - 2] = PERCENT)
                THEN <<>>
                ELSE <<b[i]>>])

C28_UnescapeIffWellFormed ==
    pc = "unescaped" =>
        /\ ~res.ok <=> (\E i \in 1..Len(input) : BadEscapeAt(input, i))
        /\ ~res.ok => res.err = E("BadRequest")
        /\ res.ok => res.val = Decoded(input)
        /\ (\A i \in 1..Len(input) : input[i] # PERCENT) => res = Ok(input)

\* "%252" decodes to "%2": the "%" it yields starts no escape.
C28_Witness ==
    /\ pc = "unescaped"
    /\ input = <<PERCENT, 50, 53, 50>>
    /\ res = Ok(<<PERCENT, 50>>)

----------------------------------------------------------------------------
(* C29.  sanitize applied to its own result returns it unchanged.          *)

C29_SanitizeIdempotent == pc = "resanitized" => res = Ok(input)

\* "//./" becomes "/:/", which a second pass keeps.
C29_Witness ==
    /\ pc = "resanitized"
    /\ arg.bytes = <<SLASH, SLASH, DOT, SLASH>>
    /\ input = <<SLASH, COLON, SLASH>>
    /\ res = Ok(<<SLASH, COLON, SLASH>>)

----------------------------------------------------------------------------
(* C30.  A write or a flush that fails is the last thing the server does   *)
(* on the client connection: no write, no flush and no read of a request   *)
(* comes after it, and the loop has returned.                              *)

FailedOutput == {"write-failed", "flush-failed"}

C30_NoOutputAfterFailure ==
    \A i \in 1..Len(io) :
        io[i] \in FailedOutput => (i = Len(io) /\ pc = "done")

----------------------------------------------------------------------------
(* C31.  Once serve() has returned the exit status is 40 exactly when      *)
(* serve() returned an error, which it does only when the report of a      *)
(* failed request::read could not be written or flushed.  It is 0 after a  *)
(* single HTTP/1.0 response, after the client closed the connection        *)
(* between requests, after an error response was delivered, and also when  *)
(* the report of an error of serve_request could not be delivered.         *)

OutputFailed == \E i \in 1..Len(io) : io[i] \in FailedOutput

ServeReturnedErr == FromRead /\ status(err) # NoStatus /\ OutputFailed

C31_ExitStatus ==
    pc = "done" =>
        /\ exit \in {0, 40}
        /\ exit = 40 <=> ServeReturnedErr
        /\ (Served /\ req.protocol = "Http10" /\ err.kind = "ConnectionClosed")
               => exit = 0
        /\ (FromRead /\ err.kind = "ConnectionClosed") => exit = 0
        /\ ErrorSent => exit = 0

\* The report of a request line that cannot be parsed is refused by the
\* client: serve() returns the error of the write and the exit status is 40.
C31_Witness ==
    /\ pc = "done"
    /\ exit = 40
    /\ nread = 0
    /\ err.kind = "BadRequest"
    /\ io # <<>> /\ io[Len(io)] = "write-failed"

----------------------------------------------------------------------------
(* Requests given line by line: a client that sends empty lines before its *)
(* first and before its second request, and header lines that need not     *)
(* have the form name ":" value.                                           *)

MaxBlank == 2   \* empty lines in front of a request

\* The client sends `before` empty lines, the lines of `first`, `between`
\* empty lines and the lines of `second`, each followed by eol.
LineClient(end, eol, before, first, between, second) ==
    [end |-> end, eol |-> eol, before |-> before, first |-> first,
     between |-> between, second |-> second]

\* What the client sends: `before` empty lines, the lines of `first`,
\* `between` empty lines and the lines of `second`, each followed by eol.
LinesText(a) ==
    LET lines == [i \in 1..a.before |-> <<>>] \o a.first
                     \o [i \in 1..a.between |-> <<>>] \o a.second
    IN Flatten([i \in 1..Len(lines) |-> lines[i] \o a.eol])

\* One request with up to MaxHeaders header lines at the edges of the
\* prefix matches of request::read (bare names, names with the colon, with
\* a value, a continuation line), with and without a host in the target.
ProbeClients ==
    { LineClient("eof", CRLF, 0,
                 <<GET \o <<SP>> \o t \o <<SP>> \o HTTP_1_1>> \o hs \o << <<>> >>, 0, <<>>) :
        t \in {T_A_HTML, HTTP_SCHEME \o <<72>> \o T_A_HTML},
        hs \in SeqsUpTo(
          { <<104, 111, 115, 116>>, <<72, 79, 83, 84>>, <<104, 111, 115, 116, 58>>, <<104, 111, 115, 116, 72>>,   \* host HOST host: hostH
            <<32, 72>>,   \* <SP>H
          <<105, 102, 45, 109, 111, 100, 105, 102, 105, 101, 100, 45, 115, 105, 110, 99, 101>>,   \* if-modified-since
          <<73, 102, 45, 77, 111, 100, 105, 102, 105, 101, 100, 45, 83, 105, 110, 99, 101, 58>>,   \* If-Modified-Since:
          <<97, 99, 99, 101, 112, 116, 45, 101, 110, 99, 111, 100, 105, 110, 103>>,   \* accept-encoding
          <<97, 99, 99, 101, 112, 116, 45, 101, 110, 99, 111, 100, 105, 110, 103, 58>>,   \* accept-encoding:
          <<65, 99, 99, 101, 112, 116, 45, 69, 110, 99, 111, 100, 105, 110, 103, 58, 103, 122, 105, 112>> },   \* Accept-Encoding:gzip
          MaxHeaders) }

\* Two requests of a persistent connection (the second may be missing, or
\* have a bad request line), with up to MaxBlank empty lines before each.
BlankClients ==
    { LineClient(end, eol, b1,
                 << m \o <<SP>> \o t \o <<SP>> \o HTTP_1_1, <<72, 111, 115, 116, 58, 32, 72>>, <<>> >>, b2, r2) :
        end \in {"eof", "timeout"}, eol \in LineEndings, b1 \in 0..MaxBlank,
        m \in {GET, HEAD}, t \in {T_A_HTML, T(100), T(110)}, b2 \in 0..MaxBlank,
        r2 \in { <<>>,
                 << <<71, 69, 84, 32, 47, 97, 46, 104, 116, 109, 108, 32, 72, 84, 84, 80, 47, 49, 46, 48>>, <<>> >>,   \* GET /a.html HTTP/1.0
                 << <<72, 69, 65, 68, 32, 47, 97, 46, 104, 116, 109, 108, 32, 72, 84, 84, 80, 47, 49, 46, 49>>, <<72, 111, 115, 116, 58, 32, 72>>, <<>> >>,   \* HEAD /a.html HTTP/1.1, Host: H
                 << <<71, 69, 84, 32, 47, 97, 46, 104, 116, 109, 108>>, <<>> >> } }   \* GET /a.html

InitLines ==
    /\ arg \in ProbeClients \cup BlankClients
    /\ input = LinesText(arg)
    /\ pc = "read"
    /\ req = NoRequest
    /\ out = <<>>
    /\ flushed = 0
    /\ io = <<>>
    /\ served = NoServed
    /\ streamed = <<>>
    /\ err = NoError
    /\ nread = 0
    /\ exit = 0 - 1
    /\ res = <<>>

SpecLines == InitLines /\ [][Next]_vars

\* A step of a process that has not returned from serve(): every step of
\* Next leaves the point of the loop it starts from.
Runs == pc # "done" /\ pc' \in {"read", "serve", "done"} /\ pc' # pc

\* The same with a process that keeps running: a read returns with a line,
\* with the end of the input or with a timeout (timeout.rs 13-36), and a
\* file yields its end after finitely many bytes, so the loop does not stay
\* at one point for ever.
LiveLines == SpecLines /\ WF_pc(Runs)

----------------------------------------------------------------------------
(* C32.  request::read ends with a Request or with an HttpError for every  *)
(* sequence of input lines: no header makes the extraction of its value    *)
(* (hdr[5..] after `host`, hdr[18..] after `if-modified-since`, hdr[16..]  *)
(* after `accept-encoding:`) reach past the end of the header, and the     *)
(* process never ends by a panic.                                          *)

HttpErrors ==
    {"IoError", "ConnectionClosed", "BadRequest", "BadMethod", "BadProtocol",
     "NotFound", "NotImplemented", "PreconditionFailed", "RequestTimeout",
     "SpanishInquisition"}

C32_ReadIsTotal ==
    /\ err.kind \in HttpErrors \cup {"none"}
    /\ exit # 101

----------------------------------------------------------------------------
(* C33.  For each request at most one status line is written: once send    *)
(* has written the status line of a 200 or 304 response, no error response *)
(* follows it for that request, even when reading the file fails while the *)
(* body is streamed.                                                       *)

C33_OneStatusLinePerRequest == Cardinality(StatusLines(out)) <= 1

----------------------------------------------------------------------------
\* The body of the error response with the given reason.
ErrorBody(reason) == <<Lit("<html><body>"), Lit(reason), Lit("</body></html>\r\n")>>

(* C34 as stated.  The error response to a request whose request line is   *)
(* well formed has the status line of the version the request named, and   *)
(* no body when the method is HEAD, whether the error was met while the    *)
(* request was read or while it was served.                                *)
C34_ErrorAnswersTheRequest ==
    (ErrorSent /\ arg.nparts = 3 /\ arg.cut = 0
        /\ GoodMethod(arg.method) /\ GoodVersion(arg.version)) =>
        /\ out[1] = (IF arg.version = HTTP_1_1 THEN Lit("HTTP/1.1 ")
                     ELSE Lit("HTTP/1.0 "))
        /\ arg.method = HEAD => Body(out) = <<>>

(* C34.  The response to an error of serve_request has the status line of  *)
(* the protocol of the parsed request, and a body exactly when its method  *)
(* is GET.  The response to an error met while the request was read has an *)
(* HTTP/1.0 status line and always carries its body, whatever version and  *)
(* method the request line named.                                          *)
C34_ErrorAnswersTheParsedRequest ==
    ErrorSent =>
        IF FromRead
        THEN /\ out[1] = Lit("HTTP/1.0 ")
             /\ Body(out) = ErrorBody(ReasonOf(out))
        ELSE /\ out[1] = (IF req.protocol = "Http11" THEN Lit("HTTP/1.1 ")
                          ELSE Lit("HTTP/1.0 "))
             /\ Body(out) = (IF req.method = "Get" THEN ErrorBody(ReasonOf(out))
                             ELSE <<>>)

\* HEAD / HTTP/1.1 with a Content-Length header: refused while the request
\* is read, with an HTTP/1.0 status line and a body.
C34_Witness ==
    /\ ErrorSent
    /\ FromRead
    /\ arg \in BodyClients
    /\ arg.method = HEAD
    /\ arg.version = HTTP_1_1
    /\ CodeAt(out, 1) = "501"
    /\ out[1] = Lit("HTTP/1.0 ")
    /\ Body(out) = ErrorBody("I can't receive messages")

----------------------------------------------------------------------------
\* The paths of the request: the primary and its gzip alternate.
Primary == served.opened[1]
Alternate == Primary \o <<46, 103, 122>>

\* The alternate may stand in for the primary.
UsableAlternate ==
    ServableFile(Alternate) /\ NotOlder(FS[Alternate].mtime, FS[Primary].mtime)

\* The primary cannot be opened as a file or a directory.
PrimaryFails == ~ServableFile(Primary) /\ safe_open(Primary) # Ok(Dir)

\* Where the request failed before any response, the iteration's error is
\* the one resolve met and the response, if delivered, has the given code.
FailsWith(codes) ==
    /\ served.err # NoError
    /\ err = served.err
    /\ pc = "done"
    /\ ~HasToken(out, Lit("200")) /\ ~HasToken(out, Lit("304"))
    /\ ErrorSent => CodeAt(out, 1) \in codes

\* The primary is served as it is: not the alternate's bytes, length or
\* encoding.
PrimaryServed ==
    /\ served.err = NoError
    /\ served.resource = served.primary
    /\ ~HasToken(out, CONTENT_ENCODING_GZIP)
    /\ ResponseWritten =>
          /\ CodeAt(out, 1) \in {"200", "304"}
          /\ req.protocol = "Http10" =>
                 HeaderValue(out, CONTENT_LENGTH) = Dec(Len(FS[Primary].data))
          /\ streamed = FS[Primary].data => BodyData(out) \in {<<>>, FS[Primary].data}

----------------------------------------------------------------------------
(* C36.  The body of a complete 200 response to an HTTP/1.1 GET is a       *)
(* sequence of chunks, each written as its size in hex, CRLF, its payload  *)
(* and CRLF: the size of every chunk is the length of its payload, the     *)
(* last chunk and no other has size zero, nothing is written after it, and *)
(* the payloads in order are the bytes the file yielded up to end of file, *)
(* each byte once.                                                         *)

ChunkedResponse ==
    /\ ResponseWritten
    /\ served.kind = "file"
    /\ req.protocol = "Http11"
    /\ req.method = "Get"
    /\ CodeAt(out, 1) = "200"

\* The i-th chunk of a body: four writes.
ChunkAt(b, i) == SubSeq(b, 4 * i - 3, 4 * i)

WellFormedChunk(ch) ==
    /\ ch[1].k = "hex"
    /\ ch[2] = Lit("\r\n")
    /\ ch[3].k = "bytes"
    /\ ch[4] = Lit("\r\n")
    /\ ch[1].n = Len(ch[3].d)

C36_ChunkedBodyWellFormed ==
    ChunkedResponse =>
        LET b == Body(out)
            n == Len(b) \div 4
        IN /\ Len(b) = 4 * n
           /\ n >= 1
           /\ \A i \in 1..n :
                 /\ WellFormedChunk(ChunkAt(b, i))
                 /\ ChunkAt(b, i)[1].n = 0 <=> i = n
           /\ BodyData(out) = streamed
           /\ Cardinality(StatusLines(out)) = 1

\* GET /a.html under HTTP/1.1: three bytes go out as a chunk of two, a
\* chunk of one and the zero chunk.
C36_Witness ==
    /\ ChunkedResponse
    /\ streamed = <<11, 12, 13>>
    /\ Body(out) = <<Hex(2), Lit("\r\n"), Bytes(<<11, 12>>), Lit("\r\n"),
                     Hex(1), Lit("\r\n"), Bytes(<<13>>), Lit("\r\n")>> \o ZeroChunk

----------------------------------------------------------------------------
(* C37.  Of the paths handed to open the first is the sanitized primary    *)
(* path and the second, if there is one, is that path followed by ".gz";   *)
(* neither has a '.' right after a '/', two adjacent '/' or a NUL.  A      *)
(* primary path that ends with '/' (where ".gz" would make the dotfile     *)
(* "/.gz") is never followed by a second open, because it does not open    *)
(* as a regular file.                                                      *)

C37_AlternatePathIsSafe ==
    pc = "opened" =>
        /\ Len(served.opened) <= 2
        /\ \A i \in 1..Len(served.opened) : SafePath(served.opened[i])
        /\ served.opened # <<>> => (res.ok /\ served.opened[1] = res.val)
        /\ Len(served.opened) = 2 =>
              /\ served.opened[2] = res.val \o <<DOT, 103, 122>>
              /\ ~ends_with(res.val, <<SLASH>>)
        /\ (res.ok /\ ends_with(res.val, <<SLASH>>)) => Len(served.opened) <= 1

\* "/e" under host "A": "./a/e" opens as a file and "./a/e.gz" is opened
\* after it.
C37_Witness ==
    /\ pc = "opened"
    /\ arg = [host |-> <<65>>, target |-> <<SLASH, 101>>]
    /\ served.opened = << <<DOT, SLASH, 97, SLASH, 101>>,
                          <<DOT, SLASH, 97, SLASH, 101, DOT, 103, 122>> >>
    /\ served.gzip

----------------------------------------------------------------------------
(* C38.  The serve loop terminates: serve() eventually returns, whatever   *)
(* the client sends and however its input ends.  Every read of a request   *)
(* takes at least one line from the input, the empty lines before the      *)
(* request line included, and an iteration that reads no request returns.  *)

\* Lines left in the input: its line feeds.
LinesLeft(inp) == Cardinality({i \in 1..Len(inp) : inp[i] = LF})

ReadConsumes ==
    /\ (pc = "read" /\ pc' = "serve") =>
          /\ LinesLeft(input') < LinesLeft(input)
          /\ Len(io') >= 1
          /\ LinesLeft(input) - LinesLeft(input') = Len(io')
    /\ (pc = "read" /\ pc' # "serve") => pc' = "done"
    /\ (pc = "serve") => (pc' \in {"read", "done"} /\ input' = input)
    /\ Len(input') <= Len(input)

\* No point of the loop blocks: until serve() has returned, the loop is
\* about to read, and the read ends with a request or with an error, or it
\* is about to serve the request it read.
NeverBlocked ==
    \/ pc = "done"
    \/ pc = "serve"
    \/ pc = "read" /\ (read(input, "eof", 0).result.ok
                          \/ ~read(input, arg.end, 0).result.ok)

C38_ServeLoopTerminates ==
    /\ []NeverBlocked
    /\ [][ReadConsumes]_vars
    /\ <>(pc = "done")

\* Two requests, each after two empty lines, then the end of the input:
\* both were read and serve() has returned.
C38_Witness ==
    /\ pc = "done"
    /\ arg.before = 2
    /\ arg.between = 2
    /\ nread = 2
    /\ input = <<>>
    /\ exit = 0

----------------------------------------------------------------------------
(* C39.  Empty lines before a request line, before the first request and   *)
(* between two requests of a connection, are skipped: the request read is  *)
(* the one read from the same lines without the empty lines, one more      *)
(* readline is made for every empty line, and a read that fails fails with *)
(* the error it fails with without the empty lines.                        *)

\* What the client sends for its k-th request when it sends no empty lines.
WithoutBlanks(a, k) ==
    LinesText([a EXCEPT !.before = 0, !.between = 0,
                        !.first = IF k = 1 THEN a.first ELSE a.second,
                        !.second = <<>>])

BlanksBefore(a, k) == IF k = 1 THEN a.before ELSE a.between

C39_BlankLinesSkipped ==
    /\ (pc = "serve" /\ nread \in 1..2) =>
          LET rr == read(WithoutBlanks(arg, nread), arg.end, 0)
          IN /\ rr.result.ok
             /\ req = rr.result.val
             /\ Len(io) = BlanksBefore(arg, nread) + rr.lines
             /\ nread = 1 =>
                   input = LinesText([arg EXCEPT !.before = 0, !.first = <<>>])
             /\ nread = 2 => input = <<>>
    /\ (pc = "done" /\ FromRead /\ nread \in 0..1) =>
          LET rr == read(WithoutBlanks(arg, nread + 1), arg.end, 0)
          IN /\ ~rr.result.ok
             /\ err = rr.result.err

\* Two empty lines, GET /a.html HTTP/1.1, two empty lines, HEAD /a.html
\* HTTP/1.1: the second request is read as the HEAD request it is.
C39_Witness ==
    /\ pc = "serve"
    /\ nread = 2
    /\ arg.before = 2
    /\ arg.between = 2
    /\ req.method = "Head"
    /\ req.path = T_A_HTML
    /\ req.host = Some(<<72>>)
    /\ Len(io) = 5

====
